---- MODULE Spec2Model ----
(***************************************************************************)
(* Verification model of the cores of the openclaw toolchain:              *)
(*   - session_history: TurnExtractor, TurnEntityClassifier,               *)
(*     ReadableReplayGenerator, IndexGenerator, Settings and               *)
(*     CompositeClassifier, FilePathSignal                                 *)
(*   - knowledge_harvester: FilterPolicy, Storage / _run_extraction,       *)
(*     WeChatAdapter.extract, the WCDB v4 row decoder, Message.to_dict     *)
(*     and cmd_apply_policy                                                *)
(* Each core has its own variables, initial state and next-state relation; *)
(* a specification runs one core and leaves the others in their initial    *)
(* state.                                                                  *)
(***************************************************************************)
EXTENDS Integers, Sequences, FiniteSets, TLC

VARIABLES
    \* ---- TurnExtractor.extract_turns (turn_extractor.py) ----
    te_pc,                  \* "loop" while iterating session.messages, "done" after return
    consumed,               \* the messages of session.messages iterated so far
    turns,                  \* local `turns`
    current_user_prompt,    \* local `current_user_prompt` (None or text)
    current_assistant_msgs, \* local `current_assistant_msgs`
    turn_number,            \* local `turn_number`
    built,                  \* log of the _build_turn calls: arguments and result
    \* ---- TurnEntityClassifier.classify_turns (turn_entity_classifier.py) ----
    seg_pc,                 \* "start" before the call, "done" after return
    seg_turns,              \* argument `turns`
    seg_entities,           \* argument `entities`
    segments,               \* the returned segment list
    \* ---- FilterPolicy.evaluate (wechat_filter.py) ----
    flt_pc,                 \* "start" before the call, "done" after return
    policy,                 \* the FilterPolicy (default_tier, rules)
    flt_meta,               \* argument `meta`
    flt_result,             \* the returned (tier, matched_rule_name)
    \* ---- _run_extraction and Storage (main.py, storage.py) ----
    run_pc,                 \* position of the run in _run_extraction
    incremental,            \* argument `incremental`
    runs,                   \* number of runs started (the clock of last_run)
    conv_file,              \* <platform>/<id>.jsonl on disk, per conversation id
    index_file,             \* <platform>/index.json on disk
    state_file,             \* <platform>/state.json on disk
    state,                  \* local `state` of the run
    conversation,           \* the conversation the adapter yielded last
    yielded,                \* the conversations the adapter yielded in this run
    count,                  \* local `count`
    skipped,                \* local `skipped`
    state_before,           \* state.json as it was when the run started
    prev_run,               \* how the run before this one ended, and its store
    \* ---- WeChatAdapter.extract with a key (adapters/wechat.py) ----
    wx_pc,                  \* position of the generator
    msg_dbs,                \* local `msg_dbs`: the message database files
    contact_db,             \* db_storage/contact/contact.db
    contact_map_loaded,     \* whether self._contact_map got filled
    db_i,                   \* index of the database file the loop is at
    wx_yielded,             \* the conversations yielded so far
    \* ---- WeChatAdapter._parse_v4_msg_row (adapters/wechat.py) ----
    row_pc,                 \* "start" before the call, "done" after return
    row,                    \* argument `row`
    zstd_decompressor,      \* whether the module got a decompressor at import
    row_result,             \* the returned Message or None
    \* ---- ReadableReplayGenerator.generate (readable_replay_generator.py) ----
    rp_pc,                  \* "start", "loop", "done"
    entity_index,           \* argument entity_index: entity_id and sessions
    all_entities,           \* the registry's entities
    rp_current_entity,      \* current_entity, the result of _find_entity
    ref_i,                  \* position of the for loop over the sessions
    replay_dir,             \* the files of replay/: name, session, turns
    generated_files,        \* the returned list of paths
    \* ---- IndexGenerator.build_entity_index (index_generator.py) ----
    bi_pc,                  \* "start" before the call, "done" after return
    references,             \* argument references
    built_index,            \* EntityIndex.sessions of the returned index
    \* ---- Settings and CompositeClassifier.classify ----
    cl_pc,                  \* "start", "loaded" (Settings built), "done"
    signal_weights,         \* Settings.signal_weights, in hundredths
    classification_threshold, \* Settings.classification_threshold, in thousandths
    cl_entities,            \* argument entities, each with its signal scores
    matches,                \* classification.matches
    \* ---- Message.to_dict (knowledge_harvester/models.py) ----
    td_pc,                  \* "start" before the call, "done" after return
    td_message,             \* the Message
    td_result,              \* the returned dict
    \* ---- cmd_apply_policy (wechat_manage.py) ----
    ap_pc,                  \* "idle" between runs, "evaluated", "index_written"
    ap_runs,                \* number of runs of the command so far
    ap_policy,              \* the policy loaded from policy_path
    dry_run,                \* argument `dry_run`
    index_json,             \* wechat/index.json
    excluded_index_json,    \* wechat/_excluded/index.json (empty while absent)
    wechat_dir,             \* ids with a <id>.jsonl in wechat/
    excluded_dir,           \* ids with a <id>.jsonl in wechat/_excluded/
    results,                \* local `results`
    ap_i,                   \* position of the second loop in results
    kept_index,             \* local `kept_index`
    excluded_index,         \* local `excluded_index`
    \* ---- FilePathSignal.score (file_path_signal.py) ----
    fp_pc,                  \* "start" before the call, "done" after return
    fp_messages,            \* argument `messages`: the paths extracted from each
    fp_entity,              \* argument `entity`
    fp_score                \* the returned score

turnVars == <<te_pc, consumed, turns, current_user_prompt,
              current_assistant_msgs, turn_number, built>>

segVars == <<seg_pc, seg_turns, seg_entities, segments>>

fltVars == <<flt_pc, policy, flt_meta, flt_result>>

runVars == <<run_pc, incremental, runs, conv_file, index_file, state_file, state,
             conversation, yielded, count, skipped, state_before, prev_run>>

wxVars == <<wx_pc, msg_dbs, contact_db, contact_map_loaded, db_i, wx_yielded>>

rowVars == <<row_pc, row, zstd_decompressor, row_result>>

replayVars == <<rp_pc, entity_index, all_entities, rp_current_entity, ref_i,
                replay_dir, generated_files>>

indexVars == <<bi_pc, references, built_index>>

classifyVars == <<cl_pc, signal_weights, classification_threshold, cl_entities, matches>>

toDictVars == <<td_pc, td_message, td_result>>

applyVars == <<ap_pc, ap_runs, ap_policy, dry_run, index_json, excluded_index_json,
               wechat_dir, excluded_dir, results, ap_i, kept_index, excluded_index>>

fpVars == <<fp_pc, fp_messages, fp_entity, fp_score>>

vars == <<turnVars, segVars, fltVars, runVars, wxVars, rowVars, replayVars, indexVars,
    classifyVars, toDictVars, applyVars, fpVars>>

\* what the steps of one core leave alone: the variables of the other cores
notTurnVars == <<segVars, fltVars, runVars, wxVars, rowVars, replayVars, indexVars,
    classifyVars, toDictVars, applyVars, fpVars>>
notSegVars == <<turnVars, fltVars, runVars, wxVars, rowVars, replayVars, indexVars,
    classifyVars, toDictVars, applyVars, fpVars>>
notFltVars == <<turnVars, segVars, runVars, wxVars, rowVars, replayVars, indexVars,
    classifyVars, toDictVars, applyVars, fpVars>>
notRunVars == <<turnVars, segVars, fltVars, wxVars, rowVars, replayVars, indexVars,
    classifyVars, toDictVars, applyVars, fpVars>>
notWxVars == <<turnVars, segVars, fltVars, runVars, rowVars, replayVars, indexVars,
    classifyVars, toDictVars, applyVars, fpVars>>
notRowVars == <<turnVars, segVars, fltVars, runVars, wxVars, replayVars, indexVars,
    classifyVars, toDictVars, applyVars, fpVars>>
notReplayVars == <<turnVars, segVars, fltVars, runVars, wxVars, rowVars, indexVars,
    classifyVars, toDictVars, applyVars, fpVars>>
notIndexVars == <<turnVars, segVars, fltVars, runVars, wxVars, rowVars, replayVars,
    classifyVars, toDictVars, applyVars, fpVars>>
notClassifyVars == <<turnVars, segVars, fltVars, runVars, wxVars, rowVars, replayVars,
    indexVars, toDictVars, applyVars, fpVars>>
notToDictVars == <<turnVars, segVars, fltVars, runVars, wxVars, rowVars, replayVars,
    indexVars, classifyVars, applyVars, fpVars>>
notApplyVars == <<turnVars, segVars, fltVars, runVars, wxVars, rowVars, replayVars,
    indexVars, classifyVars, toDictVars, fpVars>>
notFpVars == <<turnVars, segVars, fltVars, runVars, wxVars, rowVars, replayVars, indexVars,
    classifyVars, toDictVars, applyVars>>
----------------------------------------------------------------------------
(* Generic helpers                                                         *)

None == [some |-> FALSE]
Some(v) == [some |-> TRUE, val |-> v]

RECURSIVE Flatten(_)
Flatten(ss) == IF ss = <<>> THEN <<>> ELSE Head(ss) \o Flatten(Tail(ss))

Range(s) == {s[i] : i \in DOMAIN s}

Max(S) == CHOOSE x \in S : \A y \in S : y <= x

----------------------------------------------------------------------------
(* session_history: texts, content blocks, session messages                *)

\* A block text is one token: "" (empty), " " (whitespace only), "S" (a
\* whole <system-reminder>..</system-reminder> element, removed by _STRIP_RE)
\* or a plain human-readable text ("a", "b", "c").

\* str.strip() is falsy exactly for the empty and the whitespace-only text
StripIsEmpty(t) == t \in {"", " "}

TextBlock(t) == [block_type |-> "text", text |-> t, tool_name |-> ""]
ToolUse(n) == [block_type |-> "tool_use", text |-> "", tool_name |-> n]
ToolResult == [block_type |-> "tool_result", text |-> "r", tool_name |-> ""]

Msg(ty, ro, bl) == [msg_type |-> ty, role |-> ro, content_blocks |-> bl]

\* The session messages the model draws from
SessionMessages ==
    { Msg("user", "user", <<TextBlock("a")>>),
      Msg("user", "user", <<TextBlock("S")>>),
      Msg("user", "user", <<>>),
      Msg("user", "user", <<ToolResult>>),
      Msg("user", "user", <<ToolResult, TextBlock("b")>>),
      Msg("user", "user", <<ToolResult, TextBlock(" ")>>),
      Msg("assistant", "assistant", <<TextBlock("a")>>),
      Msg("assistant", "assistant", <<TextBlock("b"), ToolUse("Read")>>),
      Msg("assistant", "assistant", <<ToolUse("Edit"), TextBlock("c")>>),
      Msg("assistant", "assistant", <<ToolUse("Read")>>),
      Msg("system", "", <<TextBlock("a")>>),
      Msg("summary", "", <<TextBlock("a")>>) }

\* Longest session the model iterates
MaxMsgs == 4

\* SessionMessage.text_content: the non-empty texts of the text blocks
\* (joined by "\n"; kept here as the sequence of the joined parts)
TextContent(m) ==
    LET texts == [i \in DOMAIN m.content_blocks |-> m.content_blocks[i]]
        IsPart(b) == b.block_type = "text" /\ b.text # ""
        parts == SelectSeq(texts, IsPart)
    IN [i \in DOMAIN parts |-> parts[i].text]

IsUserMsg(m) == m.msg_type = "user" \/ m.role = "user"
IsAssistantMsg(m) == m.msg_type = "assistant" \/ m.role = "assistant"
IsNonCore(m) == m.msg_type \in {"progress", "file-history-snapshot", "system"}

\* mutant: the has_text test inverted
IsToolResultMessage_Mut(m) ==
    /\ \E i \in DOMAIN m.content_blocks :
           m.content_blocks[i].block_type = "tool_result"
    /\ \E i \in DOMAIN m.content_blocks :
           /\ m.content_blocks[i].block_type = "text"
           /\ ~StripIsEmpty(m.content_blocks[i].text)

\* TurnExtractor._is_tool_result_message
IsToolResultMessage(m) ==
    IF m.content_blocks = <<>> THEN FALSE
    ELSE LET has_tool_result ==
                 \E i \in DOMAIN m.content_blocks :
                     m.content_blocks[i].block_type = "tool_result"
             has_text ==
                 \E i \in DOMAIN m.content_blocks :
                     /\ m.content_blocks[i].block_type = "text"
                     /\ ~StripIsEmpty(m.content_blocks[i].text)
         IN has_tool_result /\ ~has_text

\* str.strip() on a text kept as a sequence of parts: whitespace-only parts
\* at either end disappear
RECURSIVE LStrip(_)
LStrip(s) == IF s # <<>> /\ StripIsEmpty(Head(s)) THEN LStrip(Tail(s)) ELSE s

RECURSIVE RStrip(_)
RStrip(s) ==
    IF s # <<>> /\ StripIsEmpty(s[Len(s)]) THEN RStrip(SubSeq(s, 1, Len(s) - 1))
    ELSE s

\* TurnExtractor._clean_prompt: _STRIP_RE removes the system elements, then
\* strip()
CleanPrompt(text) ==
    LET NotStripped(t) == t # "S"
    IN RStrip(LStrip(SelectSeq(text, NotStripped)))

\* the content blocks of the assistant messages among assistant_msgs, in order
AllBlocks(assistant_msgs) ==
    LET amsgs == SelectSeq(assistant_msgs, IsAssistantMsg)
    IN Flatten([i \in DOMAIN amsgs |-> amsgs[i].content_blocks])

\* the stripped texts of the non-blank text blocks of a block sequence
TextParts(blocks) ==
    LET IsText(b) == b.block_type = "text" /\ ~StripIsEmpty(b.text)
        sel == SelectSeq(blocks, IsText)
    IN [i \in DOMAIN sel |-> sel[i].text]

\* 0-based index (as enumerate counts) of the last tool_use block, -1 when
\* there is none
LastToolIdx(all_blocks) ==
    LET idxs == {i \in DOMAIN all_blocks : all_blocks[i].block_type = "tool_use"}
    IN IF idxs = {} THEN -1 ELSE Max(idxs) - 1

\* mutant: the text is collected from the first block on
ExtractFinalResponse_Mut(assistant_msgs) ==
    TextParts(AllBlocks(assistant_msgs))

\* TurnExtractor._extract_final_response (the result kept as the sequence of
\* the text parts that "\n\n".join concatenates)
ExtractFinalResponse(assistant_msgs) ==
    LET all_blocks == AllBlocks(assistant_msgs)
        last_tool_idx == LastToolIdx(all_blocks)
        start_idx == IF last_tool_idx >= 0 THEN last_tool_idx + 1 ELSE 0
        \* all_blocks[start_idx:], the sequence being 1-based here
        text_parts == TextParts(SubSeq(all_blocks, start_idx + 1, Len(all_blocks)))
    IN IF all_blocks = <<>> THEN <<>>
       ELSE IF text_parts # <<>> THEN text_parts
       ELSE TextParts(all_blocks)

\* TurnExtractor._count_tools: tool name -> number of tool_use blocks
CountTools(assistant_msgs) ==
    LET all_blocks == AllBlocks(assistant_msgs)
        Counted(b) == b.block_type = "tool_use" /\ b.tool_name # ""
        uses == SelectSeq(all_blocks, Counted)
        names == {uses[i].tool_name : i \in DOMAIN uses}
    IN [n \in names |-> Cardinality({i \in DOMAIN uses : uses[i].tool_name = n})]

\* TurnExtractor._build_turn: None when the cleaned prompt is empty
BuildTurn(number, user_prompt, assistant_msgs) ==
    LET cleaned_prompt == CleanPrompt(user_prompt)
    IN IF cleaned_prompt = <<>> THEN None
       ELSE Some([turn_number |-> number,
                  user_prompt |-> cleaned_prompt,
                  assistant_response |-> ExtractFinalResponse(assistant_msgs),
                  tool_counts |-> CountTools(assistant_msgs)])

AppendIfSome(s, t) == IF t.some THEN Append(s, t.val) ELSE s

LogBuild(number, user_prompt, assistant_msgs, t) ==
    Append(built, [number |-> number, prompt |-> user_prompt,
                   msgs |-> assistant_msgs, result |-> t])

TurnInit ==
    /\ te_pc = "loop"
    /\ consumed = <<>>
    /\ turns = <<>>
    /\ current_user_prompt = None
    /\ current_assistant_msgs = <<>>
    /\ turn_number = 0
    /\ built = <<>>

\* loop body, `continue` of the non-core message types
SkipNonCore(m) ==
    /\ te_pc = "loop" /\ Len(consumed) < MaxMsgs
    /\ IsNonCore(m)
    /\ consumed' = Append(consumed, m)
    /\ UNCHANGED <<te_pc, turns, current_user_prompt, current_assistant_msgs,
                   turn_number, built>>
    /\ UNCHANGED notTurnVars

\* loop body, user message that only carries tool results
ToolResultMsg(m) ==
    /\ te_pc = "loop" /\ Len(consumed) < MaxMsgs
    /\ ~IsNonCore(m) /\ IsUserMsg(m) /\ IsToolResultMessage(m)
    /\ consumed' = Append(consumed, m)
    /\ current_assistant_msgs' = Append(current_assistant_msgs, m)
    /\ UNCHANGED <<te_pc, turns, current_user_prompt, turn_number, built>>
    /\ UNCHANGED notTurnVars

\* loop body, real user input: close the pending turn, open a new one
UserPrompt(m) ==
    /\ te_pc = "loop" /\ Len(consumed) < MaxMsgs
    /\ ~IsNonCore(m) /\ IsUserMsg(m) /\ ~IsToolResultMessage(m)
    /\ consumed' = Append(consumed, m)
    /\ IF current_user_prompt.some
       THEN LET t == BuildTurn(turn_number + 1, current_user_prompt.val,
                               current_assistant_msgs)
            IN /\ turn_number' = turn_number + 1
               /\ turns' = AppendIfSome(turns, t)
               /\ built' = LogBuild(turn_number + 1, current_user_prompt.val,
                                    current_assistant_msgs, t)
       ELSE UNCHANGED <<turn_number, turns, built>>
    /\ current_user_prompt' = Some(TextContent(m))
    /\ current_assistant_msgs' = <<>>
    /\ UNCHANGED te_pc
    /\ UNCHANGED notTurnVars

\* loop body, assistant message
AssistantMsg(m) ==
    /\ te_pc = "loop" /\ Len(consumed) < MaxMsgs
    /\ ~IsNonCore(m) /\ ~IsUserMsg(m) /\ IsAssistantMsg(m)
    /\ consumed' = Append(consumed, m)
    /\ current_assistant_msgs' = Append(current_assistant_msgs, m)
    /\ UNCHANGED <<te_pc, turns, current_user_prompt, turn_number, built>>
    /\ UNCHANGED notTurnVars

\* loop body, a message that is neither user nor assistant: no branch taken
OtherMsg(m) ==
    /\ te_pc = "loop" /\ Len(consumed) < MaxMsgs
    /\ ~IsNonCore(m) /\ ~IsUserMsg(m) /\ ~IsAssistantMsg(m)
    /\ consumed' = Append(consumed, m)
    /\ UNCHANGED <<te_pc, turns, current_user_prompt, current_assistant_msgs,
                   turn_number, built>>
    /\ UNCHANGED notTurnVars

\* after the loop: the last turn, then return
FinalTurn ==
    /\ te_pc = "loop"
    /\ IF current_user_prompt.some
       THEN LET t == BuildTurn(turn_number + 1, current_user_prompt.val,
                               current_assistant_msgs)
            IN /\ turn_number' = turn_number + 1
               /\ turns' = AppendIfSome(turns, t)
               /\ built' = LogBuild(turn_number + 1, current_user_prompt.val,
                                    current_assistant_msgs, t)
       ELSE UNCHANGED <<turn_number, turns, built>>
    /\ te_pc' = "done"
    /\ UNCHANGED <<consumed, current_user_prompt, current_assistant_msgs>>
    /\ UNCHANGED notTurnVars

TurnNext ==
    \/ \E m \in SessionMessages : SkipNonCore(m)
    \/ \E m \in SessionMessages : ToolResultMsg(m)
    \/ \E m \in SessionMessages : UserPrompt(m)
    \/ \E m \in SessionMessages : AssistantMsg(m)
    \/ \E m \in SessionMessages : OtherMsg(m)
    \/ FinalTurn

----------------------------------------------------------------------------
(* Claims about TurnExtractor                                              *)

\* C1: the turns returned by extract_turns are numbered contiguously 1..N in
\* order (N = number of returned turns), also when a prompt whose cleaned
\* text is empty has been discarded.
C1_TurnNumbersContiguous ==
    te_pc = "done" => \A i \in DOMAIN turns : turns[i].turn_number = i

\* a user message that carries a tool_result block and no text block with
\* non-blank text, in the words of the claim
C2_ToolResultOnly(m) ==
    /\ IsUserMsg(m) /\ ~IsNonCore(m)
    /\ \E i \in DOMAIN m.content_blocks :
           m.content_blocks[i].block_type = "tool_result"
    /\ \A i \in DOMAIN m.content_blocks :
           m.content_blocks[i].block_type = "text"
               => m.content_blocks[i].text \in {"", " "}

C2_PromptCount ==
    Cardinality({i \in DOMAIN consumed :
                    IsUserMsg(consumed[i]) /\ ~C2_ToolResultOnly(consumed[i])})

\* C2: a user-role message with a tool_result block and no non-blank text
\* block never closes the current turn and never opens a new one; it is
\* appended to the accumulated messages of the current turn, and the number
\* of returned turns never exceeds the number of the other user-role messages.
C2_ToolResultNeverStartsTurn ==
    /\ [](Len(turns) <= C2_PromptCount)
    /\ [][ (Len(consumed') = Len(consumed) + 1
               /\ C2_ToolResultOnly(consumed'[Len(consumed')]))
           => /\ turns' = turns
              /\ turn_number' = turn_number
              /\ built' = built
              /\ current_user_prompt' = current_user_prompt
              /\ current_assistant_msgs' =
                     Append(current_assistant_msgs, consumed'[Len(consumed')])
         ]_vars

\* the session U(prompt), A(text + tool_use), U(tool_result), A(text) has
\* been read and gave exactly one turn
C2_Witness ==
    /\ te_pc = "done"
    /\ consumed = << Msg("user", "user", <<TextBlock("a")>>),
                     Msg("assistant", "assistant", <<TextBlock("b"), ToolUse("Read")>>),
                     Msg("user", "user", <<ToolResult>>),
                     Msg("assistant", "assistant", <<TextBlock("a")>>) >>
    /\ Len(turns) = 1

\* the assistant blocks a _build_turn call accumulated, and the positions of
\* its tool_use blocks and of its non-blank text blocks
C3_Blocks(call) == AllBlocks(call.msgs)
C3_ToolPos(call) ==
    {i \in DOMAIN C3_Blocks(call) : C3_Blocks(call)[i].block_type = "tool_use"}
C3_TextPos(call) ==
    {i \in DOMAIN C3_Blocks(call) :
        /\ C3_Blocks(call)[i].block_type = "text"
        /\ C3_Blocks(call)[i].text \notin {"", " "}}
C3_PostTextPos(call) ==
    {i \in C3_TextPos(call) : \A j \in C3_ToolPos(call) : j < i}

RECURSIVE C3_TextsAt(_, _, _)
C3_TextsAt(blocks, pos, i) ==
    IF i > Len(blocks) THEN <<>>
    ELSE (IF i \in pos THEN <<blocks[i].text>> ELSE <<>>)
             \o C3_TextsAt(blocks, pos, i + 1)

\* C3: for every turn whose assistant blocks contain a tool_use and a
\* non-blank text block after the last tool_use, the response is exactly the
\* text blocks after that last tool_use, in order; no text block before it
\* is part of the response.
C3_ResponseOnlyAfterLastTool ==
    \A k \in DOMAIN built :
        (/\ built[k].result.some
         /\ C3_ToolPos(built[k]) # {}
         /\ C3_PostTextPos(built[k]) # {})
        => built[k].result.val.assistant_response =
               C3_TextsAt(C3_Blocks(built[k]), C3_PostTextPos(built[k]), 1)

\* a returned turn with text before and after its last tool_use
C3_Witness ==
    \E k \in DOMAIN built :
        /\ built[k].result.some
        /\ C3_ToolPos(built[k]) # {}
        /\ C3_PostTextPos(built[k]) # {}
        /\ \E i \in C3_TextPos(built[k]) : i \notin C3_PostTextPos(built[k])
        /\ \E i \in DOMAIN turns : turns[i] = built[k].result.val

\* a user message that starts a turn
C27_IsPrompt(m) == ~IsNonCore(m) /\ IsUserMsg(m) /\ ~IsToolResultMessage(m)

\* the assistant messages of the session after its first user prompt
C27_AssistantMsgs ==
    { i \in DOMAIN consumed :
        /\ ~IsNonCore(consumed[i]) /\ ~IsUserMsg(consumed[i]) /\ IsAssistantMsg(consumed[i])
        /\ \E p \in 1..(i - 1) : C27_IsPrompt(consumed[p]) }

\* the tool_use blocks of these messages that name the tool n
C27_ToolUses(n) ==
    UNION { { <<i, j>> : j \in { j \in DOMAIN consumed[i].content_blocks :
                                   /\ consumed[i].content_blocks[j].block_type = "tool_use"
                                   /\ consumed[i].content_blocks[j].tool_name = n } } :
            i \in C27_AssistantMsgs }

\* the uses of tool n that the tool_counts of the turns add up to
RECURSIVE C27_Counted(_, _)
C27_Counted(ts, n) ==
    IF ts = <<>> THEN 0
    ELSE (IF n \in DOMAIN Head(ts).tool_counts THEN Head(ts).tool_counts[n] ELSE 0)
         + C27_Counted(Tail(ts), n)

\* C27: every tool_use block of an assistant message after the first user
\* prompt is counted in the tool_counts of exactly one returned turn: for
\* every tool the counts of the returned turns add up to the number of its
\* tool_use blocks in these messages.
C27_NoAssistantActivityLost ==
    te_pc = "done" =>
        \A n \in {"Read", "Edit"} :
            C27_Counted(turns, n) = Cardinality(C27_ToolUses(n))

----------------------------------------------------------------------------
(* session_history: TurnEntityClassifier                                   *)

\* Entities of the registry.  path_patterns are matched as substrings of a
\* turn's tool_narrative and text_patterns as regexes on prompt + response;
\* both are kept as sets of tokens a turn either contains or not.
Entity(id, ty, pp, tp) ==
    [entity_id |-> id, entity_type |-> ty, path_patterns |-> pp, text_patterns |-> tp]

E1 == Entity("spec:01_foo", "spec", {"p1"}, {"w1"})
E2 == Entity("spec:02_bar", "spec", {"p2"}, {"w2"})
SrcEntity == Entity("source:foo", "source", {"p1", "p2"}, {"w1", "w2"})

\* The entity lists the model draws from
EntityLists ==
    { <<>>, <<SrcEntity>>, <<E1>>, <<E1, E2>>, <<E2, E1>>, <<SrcEntity, E2>> }

\* What a turn shows to the classifier: the path tokens of its
\* tool_narrative and the word tokens of its prompt and response
TurnKinds ==
    { [tool_narrative |-> {}, text |-> {}],
      [tool_narrative |-> {"p1"}, text |-> {}],
      [tool_narrative |-> {"p2"}, text |-> {"w1"}],
      [tool_narrative |-> {}, text |-> {"w1"}],
      [tool_narrative |-> {}, text |-> {"w2"}] }

\* Longest turn list the model classifies
MaxTurns == 4

\* the turn lists of a session: the k-th turn carries turn_number k
TurnLists ==
    UNION { { [i \in 1..n |-> [turn_number |-> i,
                               tool_narrative |-> ks[i].tool_narrative,
                               text |-> ks[i].text]] :
                ks \in [1..n -> TurnKinds] } : n \in 0..MaxTurns }

\* first entity of the list that is among the hits, None when there is none
FirstEntity(entities, hit_set) ==
    LET IsHit(e) == e \in hit_set
        hits == SelectSeq(entities, IsHit)
    IN IF hits = <<>> THEN None ELSE Some(Head(hits))

\* TurnEntityClassifier._classify_single_turn
ClassifySingleTurn(turn, entities) ==
    LET PathHit == {e \in Range(entities) :
                        e.path_patterns \cap turn.tool_narrative # {}}
        TextHit == {e \in Range(entities) :
                        e.text_patterns \cap turn.text # {}}
        by_path == IF turn.tool_narrative # {}
                   THEN FirstEntity(entities, PathHit) ELSE None
    IN IF by_path.some THEN by_path
       ELSE IF turn.text # {} THEN FirstEntity(entities, TextHit)
       ELSE None

\* TurnEntityClassifier._same_entity
SameEntity(a, b) ==
    IF ~a.some /\ ~b.some THEN TRUE
    ELSE IF ~a.some \/ ~b.some THEN FALSE
    ELSE a.val.entity_id = b.val.entity_id

Segment(e, ts) == [entity |-> e, turns |-> ts]

\* the loop of _group_consecutive from index i on
RECURSIVE GroupFrom(_, _, _, _, _, _)
GroupFrom(ts, turn_entities, i, segs, current_entity, current_turns) ==
    IF i > Len(ts) THEN Append(segs, Segment(current_entity, current_turns))
    ELSE IF SameEntity(turn_entities[i], current_entity)
         THEN GroupFrom(ts, turn_entities, i + 1, segs, current_entity,
                        Append(current_turns, ts[i]))
         ELSE GroupFrom(ts, turn_entities, i + 1,
                        Append(segs, Segment(current_entity, current_turns)),
                        turn_entities[i], <<ts[i]>>)

\* TurnEntityClassifier._group_consecutive
GroupConsecutive(ts, turn_entities) ==
    IF ts = <<>> THEN <<>>
    ELSE GroupFrom(ts, turn_entities, 2, <<>>, turn_entities[1], <<ts[1]>>)

ExtendLast(segs, ts) ==
    [segs EXCEPT ![Len(segs)].turns = @ \o ts]

\* mutant: a None segment never joins the segment before it
RECURSIVE AbsorbIntoPreceding_Mut(_, _)
AbsorbIntoPreceding_Mut(segs, result) ==
    IF segs = <<>> THEN result
    ELSE AbsorbIntoPreceding_Mut(Tail(segs), Append(result, Head(segs)))

\* first loop of _absorb_none_segments: a None segment joins the classified
\* segment before it
RECURSIVE AbsorbIntoPreceding(_, _)
AbsorbIntoPreceding(segs, result) ==
    IF segs = <<>> THEN result
    ELSE LET seg == Head(segs)
         IN IF seg.entity.some
            THEN AbsorbIntoPreceding(Tail(segs), Append(result, seg))
            ELSE IF result # <<>> /\ result[Len(result)].entity.some
                 THEN AbsorbIntoPreceding(Tail(segs), ExtendLast(result, seg.turns))
                 ELSE AbsorbIntoPreceding(Tail(segs), Append(result, seg))

\* mutant: a None segment of the first loop's result stays a segment
RECURSIVE AbsorbIntoFollowing_Mut(_, _, _)
AbsorbIntoFollowing_Mut(result, final, pending_none_turns) ==
    IF result = <<>> THEN final
    ELSE AbsorbIntoFollowing_Mut(Tail(result), Append(final, Head(result)), <<>>)

\* second loop of _absorb_none_segments and the statements after it: pending
\* None turns join the next classified segment, or the last one, or stay as
\* one None segment
RECURSIVE AbsorbIntoFollowing(_, _, _)
AbsorbIntoFollowing(result, final, pending_none_turns) ==
    IF result = <<>>
    THEN IF pending_none_turns # <<>>
         THEN IF final # <<>> THEN ExtendLast(final, pending_none_turns)
              ELSE Append(final, Segment(None, pending_none_turns))
         ELSE final
    ELSE LET seg == Head(result)
         IN IF ~seg.entity.some
            THEN AbsorbIntoFollowing(Tail(result), final,
                                     pending_none_turns \o seg.turns)
            ELSE AbsorbIntoFollowing(Tail(result),
                     Append(final, Segment(seg.entity, pending_none_turns \o seg.turns)),
                     <<>>)

\* mutant: the pending None turns are not put in front of the next segment
RECURSIVE AbsorbDropPending(_, _, _)
AbsorbDropPending(result, final, pending_none_turns) ==
    IF result = <<>>
    THEN IF pending_none_turns # <<>>
         THEN IF final # <<>> THEN ExtendLast(final, pending_none_turns)
              ELSE Append(final, Segment(None, pending_none_turns))
         ELSE final
    ELSE LET seg == Head(result)
         IN IF ~seg.entity.some
            THEN AbsorbDropPending(Tail(result), final,
                                   pending_none_turns \o seg.turns)
            ELSE AbsorbDropPending(Tail(result), Append(final, seg), <<>>)

AbsorbNoneSegments_Mut(segs) ==
    IF Len(segs) <= 1 THEN segs
    ELSE AbsorbDropPending(AbsorbIntoPreceding(segs, <<>>), <<>>, <<>>)

\* TurnEntityClassifier._absorb_none_segments
AbsorbNoneSegments(segs) ==
    IF segs = <<>> THEN segs
    ELSE IF Len(segs) = 1 THEN segs
    ELSE AbsorbIntoFollowing(AbsorbIntoPreceding(segs, <<>>), <<>>, <<>>)

IsSpecEntity(e) == e.entity_type = "spec"

\* TurnEntityClassifier.classify_turns
ClassifyTurnsResult(ts, entities) ==
    LET spec_entities == SelectSeq(entities, IsSpecEntity)
    IN IF spec_entities = <<>> \/ ts = <<>>
       THEN (IF ts # <<>> THEN <<Segment(None, ts)>> ELSE <<>>)
       ELSE LET turn_entities ==
                    [i \in DOMAIN ts |-> ClassifySingleTurn(ts[i], spec_entities)]
            IN AbsorbNoneSegments(GroupConsecutive(ts, turn_entities))

SegInit ==
    /\ seg_pc = "start"
    /\ seg_turns = <<>>
    /\ seg_entities = <<>>
    /\ segments = <<>>

\* a call of classify_turns(turns, entities)
ClassifyTurns(ts, entities) ==
    /\ seg_pc = "start"
    /\ seg_turns' = ts
    /\ seg_entities' = entities
    /\ segments' = ClassifyTurnsResult(ts, entities)
    /\ seg_pc' = "done"
    /\ UNCHANGED notSegVars

SegNext == \E ts \in TurnLists, entities \in EntityLists : ClassifyTurns(ts, entities)

\* the per-turn entities of the call, as classify_turns computes them
SegTurnEntities ==
    [i \in DOMAIN seg_turns |->
        ClassifySingleTurn(seg_turns[i], SelectSeq(seg_entities, IsSpecEntity))]

\* C4: the segments returned by classify_turns partition the turns: the
\* segments' turn lists, concatenated in segment order, are exactly the
\* input turn list.
C4_SegmentsPartitionTurns ==
    seg_pc = "done" =>
        Flatten([i \in DOMAIN segments |-> segments[i].turns]) = seg_turns

\* a call whose turns start unclassified and are classified to two entities,
\* with an unclassified turn in between
C4_Witness ==
    /\ seg_pc = "done"
    /\ Len(seg_turns) = 4
    /\ ~SegTurnEntities[1].some /\ SegTurnEntities[2].some
    /\ ~SegTurnEntities[3].some /\ SegTurnEntities[4].some
    /\ ~SameEntity(SegTurnEntities[2], SegTurnEntities[4])
    /\ Len(segments) = 2

\* C21: no two adjacent segments returned by classify_turns carry the same
\* entity id (every segment is a maximal run of turns of one entity).
C21_AdjacentSegmentsDiffer ==
    seg_pc = "done" =>
        \A k \in 1..(Len(segments) - 1) :
            ~SameEntity(segments[k].entity, segments[k + 1].entity)

\* the turns that are classified to an entity
C23_Classified == { i \in DOMAIN seg_turns : SegTurnEntities[i].some }

\* the segments that hold the turn with number i
C23_SegmentsOf(i) ==
    { k \in DOMAIN segments :
        \E m \in DOMAIN segments[k].turns : segments[k].turns[m].turn_number = i }

\* the classified turn whose segment an unclassified turn i belongs to: the
\* nearest classified turn before i, or the first classified turn
C23_Anchor(i) ==
    LET before == { j \in C23_Classified : j < i }
    IN IF before # {} THEN CHOOSE j \in before : \A j2 \in before : j2 <= j
       ELSE CHOOSE j \in C23_Classified : \A j2 \in C23_Classified : j <= j2

\* C23: when at least one turn is classified, every unclassified turn lies
\* in the segment of the nearest classified turn before it, or of the first
\* classified turn when none is before it, and every classified turn lies
\* in a segment of its own entity.
C23_NoneTurnsJoinNearestClassified ==
    (seg_pc = "done" /\ C23_Classified # {}) =>
        /\ \A j \in C23_Classified :
              /\ Cardinality(C23_SegmentsOf(j)) = 1
              /\ \A k \in C23_SegmentsOf(j) :
                    SameEntity(segments[k].entity, SegTurnEntities[j])
        /\ \A i \in DOMAIN seg_turns \ C23_Classified :
              C23_SegmentsOf(i) = C23_SegmentsOf(C23_Anchor(i))

\* per-turn entities [E1, None, E2, None] gave (E1, [t1, t2]), (E2, [t3, t4])
C23_Witness ==
    /\ seg_pc = "done"
    /\ Len(seg_turns) = 4
    /\ SegTurnEntities[1] = Some(E1) /\ ~SegTurnEntities[2].some
    /\ SegTurnEntities[3] = Some(E2) /\ ~SegTurnEntities[4].some
    /\ segments = << Segment(Some(E1), SubSeq(seg_turns, 1, 2)),
                     Segment(Some(E2), SubSeq(seg_turns, 3, 4)) >>

\* C24: a segment without entity is returned only when no turn is
\* classified, and then the result is the single segment (None, all
\* turns); when some turn is classified no segment is without entity.
C24_NoneSegmentOnlyWhenAllNone ==
    seg_pc = "done" =>
        /\ (\E k \in DOMAIN segments : ~segments[k].entity.some) =>
              (C23_Classified = {} /\ segments = <<Segment(None, seg_turns)>>)
        /\ (C23_Classified = {} /\ seg_turns # <<>>) =>
              segments = <<Segment(None, seg_turns)>>
        /\ C23_Classified # {} =>
              \A k \in DOMAIN segments : segments[k].entity.some

\* three turns, none of them classified although a SPEC entity was given,
\* came back as one segment without entity
C24_Witness ==
    /\ seg_pc = "done"
    /\ Len(seg_turns) = 3
    /\ \E i \in DOMAIN seg_entities : IsSpecEntity(seg_entities[i])
    /\ C23_Classified = {}
    /\ segments = <<Segment(None, seg_turns)>>

----------------------------------------------------------------------------
(* knowledge_harvester: FilterPolicy                                       *)

\* Time is counted in days.  A last_message_time is the empty string, a
\* string datetime.fromisoformat rejects, an ISO timestamp with a UTC
\* offset (its day), or an ISO timestamp without offset: fromisoformat
\* parses it to a naive datetime, and comparing that with the aware cutoff
\* raises TypeError.
Now == 100

NoTime == [kind |-> "empty", day |-> 0]
BadTime == [kind |-> "unparsable", day |-> 0]
IsoTime(d) == [kind |-> "iso", day |-> d]
NaiveTime(d) == [kind |-> "naive", day |-> d]

FilterRule(n, m, t, p) == [name |-> n, match |-> m, tier |-> t, priority |-> p]

\* The rules the model draws from; a match object holds only the criteria
\* the rule states
FilterRules ==
    { FilterRule("all-neg", <<>>, "exclude", -1),
      FilterRule("grp-neg", [is_group |-> TRUE], "keep", -5),
      FilterRule("all-zero", <<>>, "keep", 0),
      FilterRule("grp-5", [is_group |-> TRUE], "exclude", 5),
      FilterRule("big-5", [min_messages |-> 50], "keep", 5),
      FilterRule("small-20", [max_messages |-> 10], "exclude", 20),
      FilterRule("active-10", [active_within_days |-> 7], "keep", 10),
      FilterRule("dormant-10", [dormant_days |-> 30], "exclude", 10),
      FilterRule("grp-big-20", [is_group |-> TRUE, min_messages |-> 50], "keep", 20) }

\* Longest rule list of a policy
MaxRules == 3

RuleLists == UNION { [1..n -> FilterRules] : n \in 0..MaxRules }

DefaultTiers == {"archive", "keep"}

\* The conversation metadata the model draws from
Metas ==
    { [is_group |-> TRUE, message_count |-> 5, last_message_time |-> IsoTime(99)],
      [is_group |-> TRUE, message_count |-> 120, last_message_time |-> BadTime],
      [is_group |-> FALSE, message_count |-> 120, last_message_time |-> IsoTime(50)],
      [is_group |-> FALSE, message_count |-> 0, last_message_time |-> NoTime],
      [is_group |-> FALSE, message_count |-> 30, last_message_time |-> IsoTime(93)],
      [is_group |-> TRUE, message_count |-> 60, last_message_time |-> IsoTime(70)],
      [is_group |-> FALSE, message_count |-> 30, last_message_time |-> NaiveTime(99)] }

Has(match, key) == key \in DOMAIN match

\* _matches: every criterion the rule states holds of the conversation
Matches(rule, meta) ==
    LET match == rule.match
        last == meta.last_message_time
    IN /\ Has(match, "is_group") => meta.is_group = match.is_group
       /\ Has(match, "min_messages") => ~(meta.message_count < match.min_messages)
       /\ Has(match, "max_messages") => ~(meta.message_count > match.max_messages)
       /\ Has(match, "active_within_days") =>
              /\ last.kind = "iso"
              /\ ~(last.day < Now - match.active_within_days)
       /\ Has(match, "dormant_days") =>
              (last.kind = "iso" => ~(last.day >= Now - match.dormant_days))

Matched(t, r, p) == [tier |-> t, rule |-> r, priority |-> p]

\* the loop of FilterPolicy.evaluate
RECURSIVE EvaluateFrom(_, _, _)
EvaluateFrom(rules, meta, matched) ==
    IF rules = <<>> THEN matched
    ELSE LET rule == Head(rules)
         IN IF rule.priority > matched.priority /\ Matches(rule, meta)
            THEN EvaluateFrom(Tail(rules), meta,
                              Matched(rule.tier, rule.name, rule.priority))
            ELSE EvaluateFrom(Tail(rules), meta, matched)

\* mutant: the loop takes a rule on its priority alone
RECURSIVE EvaluateFromAnyRule(_, _, _)
EvaluateFromAnyRule(rules, meta, matched) ==
    IF rules = <<>> THEN matched
    ELSE LET rule == Head(rules)
         IN IF rule.priority > matched.priority
            THEN EvaluateFromAnyRule(Tail(rules), meta,
                                     Matched(rule.tier, rule.name, rule.priority))
            ELSE EvaluateFromAnyRule(Tail(rules), meta, matched)

Evaluate_Mut(pol, meta) ==
    LET matched == EvaluateFromAnyRule(pol.rules, meta,
                                       Matched(pol.default_tier, "default", -1))
    IN <<matched.tier, matched.rule>>

\* FilterPolicy.evaluate
Evaluate(pol, meta) ==
    LET matched == EvaluateFrom(pol.rules, meta, Matched(pol.default_tier, "default", -1))
    IN <<matched.tier, matched.rule>>

FltInit ==
    /\ flt_pc = "start"
    /\ policy = [default_tier |-> "archive", rules |-> <<>>]
    /\ flt_meta = [is_group |-> FALSE, message_count |-> 0, last_message_time |-> NoTime]
    /\ flt_result = <<"", "">>

\* a call policy.evaluate(meta)
EvaluateCall(pol, meta) ==
    /\ flt_pc = "start"
    /\ policy' = pol
    /\ flt_meta' = meta
    /\ flt_result' = Evaluate(pol, meta)
    /\ flt_pc' = "done"
    /\ UNCHANGED notFltVars

FltNext ==
    \E rules \in RuleLists, dt \in DefaultTiers, meta \in Metas :
        EvaluateCall([default_tier |-> dt, rules |-> rules], meta)

\* the positions of the policy's rules that match the conversation
MatchingRules == {i \in DOMAIN policy.rules : Matches(policy.rules[i], flt_meta)}

\* C5: evaluate returns the tier and name of the matching rule with the
\* highest priority, whatever the order of the rules and for every integer
\* priority (zero and negative included); the default is returned only when
\* no rule matches.
C5_HighestPriorityWins ==
    flt_pc = "done" =>
        IF MatchingRules = {}
        THEN flt_result = <<policy.default_tier, "default">>
        ELSE \E i \in MatchingRules :
                /\ \A j \in MatchingRules :
                       policy.rules[j].priority <= policy.rules[i].priority
                /\ flt_result = <<policy.rules[i].tier, policy.rules[i].name>>

\* C13: evaluate returns (default_tier, "default") when the policy has no
\* rules and, more generally, whenever no rule matches the conversation.
C13_DefaultWhenNoRuleMatches ==
    (flt_pc = "done" /\ \A i \in DOMAIN policy.rules : ~Matches(policy.rules[i], flt_meta))
        => flt_result = <<policy.default_tier, "default">>

\* a policy with rules, none of which matches the conversation, was
\* evaluated
C13_Witness ==
    /\ flt_pc = "done"
    /\ Len(policy.rules) >= 2
    /\ \A i \in DOMAIN policy.rules : ~Matches(policy.rules[i], flt_meta)
    /\ flt_result = <<policy.default_tier, "default">>

\* a last_message_time datetime.fromisoformat accepts
C22_Parsable(last) == last.kind \in {"iso", "naive"}

\* the last message is older than n days at evaluation time
C22_OlderThan(last, n) == last.day < Now - n

\* C22: a rule whose only criterion is active_within_days = N matches iff
\* last_message_time is present, parsable and not older than N days; a
\* rule whose only criterion is dormant_days = N matches iff it is missing,
\* unparsable or older than N days.
C22_RecencyCriteria ==
    flt_pc = "done" =>
        \A i \in DOMAIN policy.rules :
            LET rule == policy.rules[i]
                last == flt_meta.last_message_time
            IN /\ DOMAIN rule.match = {"active_within_days"} =>
                     (Matches(rule, flt_meta) <=>
                        (/\ last.kind # "empty"
                         /\ C22_Parsable(last)
                         /\ ~C22_OlderThan(last, rule.match.active_within_days)))
               /\ DOMAIN rule.match = {"dormant_days"} =>
                     (Matches(rule, flt_meta) <=>
                        (\/ last.kind = "empty"
                         \/ ~C22_Parsable(last)
                         \/ C22_OlderThan(last, rule.match.dormant_days)))

\* the matching rules of the highest priority among the matching rules
C30_TopRules ==
    { i \in MatchingRules :
        \A j \in MatchingRules : policy.rules[j].priority <= policy.rules[i].priority }

\* C30: when several matching rules share the highest priority, evaluate
\* returns tier and name of the one that comes first in the rule list.
C30_FirstOfTiedRulesWins ==
    (flt_pc = "done" /\ Cardinality(C30_TopRules) >= 2) =>
        \E i \in C30_TopRules :
            /\ \A j \in C30_TopRules : i <= j
            /\ flt_result = <<policy.rules[i].tier, policy.rules[i].name>>

----------------------------------------------------------------------------
(* knowledge_harvester: Storage and _run_extraction                        *)

\* A file on disk: absent, or present with its data; complete is FALSE from
\* open(path, "w"), which truncates the file, until the last write is done.
Absent == [exists |-> FALSE, complete |-> TRUE, data |-> <<>>]
Truncated == [exists |-> TRUE, complete |-> FALSE, data |-> <<>>]
Written(d) == [exists |-> TRUE, complete |-> TRUE, data |-> d]

ConvIds == {"c1", "c2"}

\* a Message, identified by its timestamp
Message(ts) == [timestamp |-> ts]

Conv(id, title, tss) ==
    [id |-> id, title |-> title, messages |-> [i \in DOMAIN tss |-> Message(tss[i])]]

\* The conversations an adapter yields in the model
Conversations ==
    { Conv("c1", "T1", <<1>>),
      Conv("c1", "T1 renamed", <<1, 2>>),
      Conv("c2", "T2", <<3>>),
      Conv("c2", "T2", <<>>) }

NoConversation == Conv("", "", <<>>)

\* Most conversations an adapter yields in one run
MaxYield == 2

\* Most runs of _run_extraction
MaxRuns == 2

\* Conversation.message_count
MessageCount(c) == Len(c.messages)

\* timestamp of the last message, "" (here 0) for a conversation without messages
LastTs(c) == IF c.messages # <<>> THEN c.messages[Len(c.messages)].timestamp ELSE 0

FirstTs(c) == IF c.messages # <<>> THEN c.messages[1].timestamp ELSE 0

\* Conversation.to_index_entry
ToIndexEntry(c) ==
    [id |-> c.id, title |-> c.title, message_count |-> MessageCount(c),
     first_message_time |-> FirstTs(c), last_message_time |-> LastTs(c)]

\* the state of a platform that has no state.json
EmptyState == [last_run |-> 0, conversations |-> <<>>]

\* Storage.load_state on a readable file
LoadState == IF ~state_file.exists THEN EmptyState ELSE state_file.data

\* Storage._load_index on a readable file
LoadIndex == IF ~index_file.exists THEN <<>> ELSE index_file.data

\* json.load raises on a file that holds no complete JSON document
Unreadable(f) == f.exists /\ ~f.complete

\* Storage.is_conversation_changed
IsConversationChanged(c) ==
    LET convs == LoadState.conversations
    IN IF c.id \notin DOMAIN convs THEN TRUE
       ELSE \/ MessageCount(c) # convs[c.id].message_count
            \/ LastTs(c) # convs[c.id].last_message_time

\* mutant: the time of the first message is recorded
UpdateStateForConversation_Mut(st, c) ==
    [st EXCEPT !.conversations =
        [id \in DOMAIN st.conversations \cup {c.id} |->
            IF id = c.id
            THEN [message_count |-> MessageCount(c), last_message_time |-> FirstTs(c)]
            ELSE st.conversations[id]]]

\* Storage.update_state_for_conversation
UpdateStateForConversation(st, c) ==
    [st EXCEPT !.conversations =
        [id \in DOMAIN st.conversations \cup {c.id} |->
            IF id = c.id
            THEN [message_count |-> MessageCount(c), last_message_time |-> LastTs(c)]
            ELSE st.conversations[id]]]

\* mutant: the entry is always appended
UpdatedIndex_Mut(index, c) == Append(index, ToIndexEntry(c))

\* the replace-or-append of Storage._update_index
UpdatedIndex(index, c) ==
    LET found == {i \in DOMAIN index : index[i].id = c.id}
    IN IF found # {}
       THEN [index EXCEPT ![CHOOSE i \in found : \A j \in found : i <= j] = ToIndexEntry(c)]
       ELSE Append(index, ToIndexEntry(c))

RunInit ==
    /\ run_pc = "idle"
    /\ incremental = FALSE
    /\ runs = 0
    /\ conv_file = [id \in ConvIds |-> Absent]
    /\ index_file = Absent
    /\ state_file = Absent
    /\ state = EmptyState
    /\ conversation = NoConversation
    /\ yielded = <<>>
    /\ count = 0
    /\ skipped = 0
    /\ state_before = Absent
    /\ prev_run = [incremental |-> FALSE, completed |-> FALSE, yielded |-> <<>>,
                   conv_file |-> [id \in ConvIds |-> Absent], index_file |-> Absent]

Running == run_pc \notin {"idle", "done", "failed"}

\* _run_extraction up to its loop: the state is loaded (incremental) or fresh
EnterRun(inc) ==
    /\ ~Running /\ runs < MaxRuns
    /\ runs' = runs + 1
    /\ incremental' = inc
    /\ state_before' = state_file
    /\ IF inc /\ Unreadable(state_file)
       THEN run_pc' = "failed" /\ state' = EmptyState
       ELSE /\ run_pc' = "loop"
            /\ state' = IF inc THEN LoadState ELSE EmptyState
    /\ conversation' = NoConversation
    /\ yielded' = <<>>
    /\ count' = 0
    /\ skipped' = 0
    /\ UNCHANGED <<conv_file, index_file, state_file>>
    /\ UNCHANGED notRunVars

\* _run_extraction is called
StartRun(inc) == EnterRun(inc) /\ UNCHANGED prev_run

\* _run_extraction is called after an earlier run, whose end is kept
StartRerun(inc) ==
    /\ EnterRun(inc)
    /\ prev_run' = [incremental |-> incremental, completed |-> run_pc = "done",
                    yielded |-> yielded, conv_file |-> conv_file,
                    index_file |-> index_file]

\* adapter.extract(source) yields the next conversation
Yield(c) ==
    /\ run_pc = "loop" /\ Len(yielded) < MaxYield
    /\ conversation' = c
    /\ yielded' = Append(yielded, c)
    /\ run_pc' = "check"
    /\ UNCHANGED <<incremental, runs, conv_file, index_file, state_file, state,
                   count, skipped, state_before, prev_run>>
    /\ UNCHANGED notRunVars

\* incremental run: an unchanged conversation is skipped
SkipUnchanged ==
    /\ run_pc = "check"
    /\ incremental /\ ~IsConversationChanged(conversation)
    /\ skipped' = skipped + 1
    /\ run_pc' = "loop"
    /\ UNCHANGED <<incremental, runs, conv_file, index_file, state_file, state,
                   conversation, yielded, count, state_before, prev_run>>
    /\ UNCHANGED notRunVars

\* Storage.save_conversation: open(path, "w")
ConvOpen ==
    /\ run_pc = "check"
    /\ ~(incremental /\ ~IsConversationChanged(conversation))
    /\ conv_file' = [conv_file EXCEPT ![conversation.id] = Truncated]
    /\ run_pc' = "conv_write"
    /\ UNCHANGED <<incremental, runs, index_file, state_file, state,
                   conversation, yielded, count, skipped, state_before, prev_run>>
    /\ UNCHANGED notRunVars

\* Storage.save_conversation: one f.write per message
ConvWriteLine ==
    /\ run_pc = "conv_write"
    /\ Len(conv_file[conversation.id].data) < Len(conversation.messages)
    /\ conv_file' = [conv_file EXCEPT ![conversation.id].data =
                        Append(@, conversation.messages[Len(@) + 1])]
    /\ UNCHANGED <<run_pc, incremental, runs, index_file, state_file, state,
                   conversation, yielded, count, skipped, state_before, prev_run>>
    /\ UNCHANGED notRunVars

\* Storage.save_conversation: the with block is left, the file is closed
ConvClose ==
    /\ run_pc = "conv_write"
    /\ Len(conv_file[conversation.id].data) = Len(conversation.messages)
    /\ conv_file' = [conv_file EXCEPT ![conversation.id].complete = TRUE]
    /\ run_pc' = "index_open"
    /\ UNCHANGED <<incremental, runs, index_file, state_file, state,
                   conversation, yielded, count, skipped, state_before, prev_run>>
    /\ UNCHANGED notRunVars

\* Storage._update_index: the index is loaded, then open(index_path, "w")
IndexOpen ==
    /\ run_pc = "index_open"
    /\ IF Unreadable(index_file)
       THEN run_pc' = "failed" /\ UNCHANGED index_file
       ELSE /\ index_file' = [Truncated EXCEPT !.data = LoadIndex]
            /\ run_pc' = "index_dump"
    /\ UNCHANGED <<incremental, runs, conv_file, state_file, state,
                   conversation, yielded, count, skipped, state_before, prev_run>>
    /\ UNCHANGED notRunVars

\* Storage._update_index: json.dump(index); then, back in _run_extraction,
\* update_state_for_conversation and count += 1
IndexDump ==
    /\ run_pc = "index_dump"
    /\ index_file' = Written(UpdatedIndex(index_file.data, conversation))
    /\ state' = UpdateStateForConversation(state, conversation)
    /\ count' = count + 1
    /\ run_pc' = "loop"
    /\ UNCHANGED <<incremental, runs, conv_file, state_file,
                   conversation, yielded, skipped, state_before, prev_run>>
    /\ UNCHANGED notRunVars

\* mutant: every run goes on to save_state
EndOfLoop_Mut ==
    /\ run_pc = "loop"
    /\ state_file' = Truncated
    /\ run_pc' = "state_dump"
    /\ UNCHANGED <<incremental, runs, conv_file, index_file, state,
                   conversation, yielded, count, skipped, state_before, prev_run>>
    /\ UNCHANGED notRunVars

\* the adapter is exhausted; an incremental run goes on to save_state, which
\* starts with open(path, "w")
EndOfLoop ==
    /\ run_pc = "loop"
    /\ IF incremental
       THEN /\ state_file' = Truncated
            /\ run_pc' = "state_dump"
       ELSE /\ run_pc' = "done"
            /\ UNCHANGED state_file
    /\ UNCHANGED <<incremental, runs, conv_file, index_file, state,
                   conversation, yielded, count, skipped, state_before, prev_run>>
    /\ UNCHANGED notRunVars

\* Storage.save_state: json.dump(state) with last_run set; the run returns
StateDump ==
    /\ run_pc = "state_dump"
    /\ state' = [state EXCEPT !.last_run = runs]
    /\ state_file' = Written(state')
    /\ run_pc' = "done"
    /\ UNCHANGED <<incremental, runs, conv_file, index_file,
                   conversation, yielded, count, skipped, state_before, prev_run>>
    /\ UNCHANGED notRunVars

\* the run stops with an error where it is: the adapter raises, a store call
\* raises (OSError from a write), or the run is interrupted
Fail ==
    /\ Running
    /\ run_pc' = "failed"
    /\ UNCHANGED <<incremental, runs, conv_file, index_file, state_file, state,
                   conversation, yielded, count, skipped, state_before, prev_run>>
    /\ UNCHANGED notRunVars

RunNext ==
    \/ \E inc \in BOOLEAN : StartRun(inc)
    \/ \E c \in Conversations : Yield(c)
    \/ SkipUnchanged
    \/ ConvOpen
    \/ ConvWriteLine
    \/ ConvClose
    \/ IndexOpen
    \/ IndexDump
    \/ EndOfLoop
    \/ StateDump
    \/ Fail

\* runs of _run_extraction one after the other, none of them interrupted
RerunNext ==
    \/ \E inc \in BOOLEAN : StartRerun(inc)
    \/ \E c \in Conversations : Yield(c)
    \/ SkipUnchanged
    \/ ConvOpen
    \/ ConvWriteLine
    \/ ConvClose
    \/ IndexOpen
    \/ IndexDump
    \/ EndOfLoop
    \/ StateDump

\* C6: when a run stops with an error before it completes, the platform's
\* incremental-scan state on disk is exactly what it was before the run
\* started, whatever conversations the run had saved.
C6_FailedRunKeepsState ==
    run_pc = "failed" => state_file = state_before

\* C7: every output file is replaced atomically: at no point of a write, and
\* after an interruption at any point, does a target path hold a partially
\* written or truncated file.
C7_NoPartialFileVisible ==
    /\ \A id \in ConvIds : conv_file[id].complete
    /\ index_file.complete
    /\ state_file.complete

\* the conversations of a list carry pairwise distinct ids
DistinctIds(cs) == \A i, j \in DOMAIN cs : cs[i].id = cs[j].id => i = j

\* the run follows a completed incremental run, is incremental itself, and
\* the adapter has so far yielded what it yielded in that run, each id once
C14_RerunOverUnchangedSource ==
    /\ runs >= 2 /\ incremental /\ run_pc # "failed"
    /\ prev_run.incremental /\ prev_run.completed
    /\ DistinctIds(prev_run.yielded)
    /\ Len(yielded) <= Len(prev_run.yielded)
    /\ yielded = SubSeq(prev_run.yielded, 1, Len(yielded))

\* C14: an incremental run that follows a completed incremental run over an
\* unchanged source, each conversation id yielded once per run, saves no
\* conversation: every conversation is skipped as unchanged and the
\* conversation files and the index stay as they were.
C14_RerunSavesNothing ==
    C14_RerunOverUnchangedSource =>
        /\ count = 0
        /\ run_pc \in {"loop", "check", "state_dump", "done"}
        /\ run_pc = "check" => ~IsConversationChanged(conversation)
        /\ run_pc # "check" => skipped = Len(yielded)
        /\ conv_file = prev_run.conv_file
        /\ index_file = prev_run.index_file

\* such a re-run has completed after the adapter yielded two conversations,
\* one of them with two messages, which the first run had saved
C14_Witness ==
    /\ C14_RerunOverUnchangedSource /\ run_pc = "done"
    /\ yielded = prev_run.yielded /\ Len(yielded) = 2 /\ skipped = 2
    /\ \E i \in DOMAIN yielded : Len(yielded[i].messages) = 2
    /\ \A i \in DOMAIN yielded : conv_file[yielded[i].id].exists

\* C15 as stated: every completed run, incremental or not, has rewritten the
\* state file at its end.
C15_EveryRunRewritesState ==
    run_pc = "done" =>
        /\ state_file.exists /\ state_file.complete
        /\ state_file.data.last_run = runs

\* a step that completes the save of a conversation records its message
\* count and last-message time in the run's state and keeps the other entries
C15_SaveIsRecorded ==
    count' = count + 1 =>
        /\ DOMAIN state'.conversations = DOMAIN state.conversations \cup {conversation.id}
        /\ \A id \in DOMAIN state'.conversations :
              state'.conversations[id] =
                  IF id = conversation.id
                  THEN [message_count |-> Len(conversation.messages),
                        last_message_time |-> LastTs(conversation)]
                  ELSE state.conversations[id]

\* C15 as amended: a completed incremental run has rewritten the state file
\* once, at run end, with the state of the run, in which every save has
\* recorded message count and last-message time of the saved conversation;
\* a non-incremental run leaves the state file as it was; no step other
\* than save_state at the end of an incremental run changes the state file.
C15_IncrementalRunRewritesStateAtEnd ==
    /\ [](run_pc = "done" =>
            IF incremental
            THEN /\ state_file = Written(state)
                 /\ state.last_run = runs
            ELSE state_file = state_before)
    /\ [][state_file' # state_file =>
            /\ incremental
            /\ \/ run_pc = "loop" /\ run_pc' = "state_dump"
               \/ run_pc = "state_dump" /\ run_pc' = "done"]_vars
    /\ [][C15_SaveIsRecorded]_vars

\* an incremental run that saved a conversation has completed
C15_Witness ==
    /\ run_pc = "done" /\ incremental /\ count >= 1
    /\ state_file = Written(state) /\ state_file # state_before

\* the index entry the claim describes for a saved conversation
C16_EntryOf(c) ==
    [id |-> c.id, title |-> c.title, message_count |-> Len(c.messages),
     first_message_time |-> IF c.messages = <<>> THEN 0 ELSE c.messages[1].timestamp,
     last_message_time |->
        IF c.messages = <<>> THEN 0 ELSE c.messages[Len(c.messages)].timestamp]

\* a step in which a save_conversation call returns
C16_SaveReturns == count' = count + 1

\* C16: index.json holds one entry per conversation id saved: no two
\* entries share an id; a save that returns leaves the entry of its
\* conversation (title, message count, first and last message time of this
\* save) in the place of the id's earlier entry, or at the end when the id
\* is new, and leaves every other entry as it was; nothing but a save
\* changes the index.
C16_OneIndexEntryPerId ==
    /\ [](index_file.complete =>
            \A i, j \in DOMAIN index_file.data :
                index_file.data[i].id = index_file.data[j].id => i = j)
    /\ [][C16_SaveReturns =>
            LET old == index_file.data
                new == index_file'.data
                at == {i \in DOMAIN old : old[i].id = conversation.id}
            IN /\ index_file'.complete
               /\ Len(new) = IF at = {} THEN Len(old) + 1 ELSE Len(old)
               /\ \A i \in DOMAIN new :
                     new[i] = IF i \in at \/ i > Len(old)
                              THEN C16_EntryOf(conversation) ELSE old[i]]_vars
    /\ [][index_file'.data # index_file.data => C16_SaveReturns]_vars

\* a run has saved one conversation, whose id an earlier run had saved
\* before another id: its entry, with the new title and times, is still the
\* first of two
C16_Witness ==
    /\ run_pc = "loop" /\ count = 1 /\ index_file.complete
    /\ yielded = <<Conv("c1", "T1 renamed", <<1, 2>>)>>
    /\ Len(index_file.data) = 2
    /\ index_file.data[1] = C16_EntryOf(Conv("c1", "T1 renamed", <<1, 2>>))
    /\ index_file.data[2].id = "c2"

\* C26: after a completed run the file <platform>/X.jsonl holds every
\* message of every conversation the adapter yielded under id X in that
\* run, also when the id was yielded more than once.
C26_NoYieldedMessageLost ==
    run_pc = "done" =>
        \A i \in DOMAIN yielded :
            LET file == conv_file[yielded[i].id]
            IN \A k \in DOMAIN yielded[i].messages :
                  /\ file.exists
                  /\ \E j \in DOMAIN file.data : file.data[j] = yielded[i].messages[k]

----------------------------------------------------------------------------
(* knowledge_harvester: WeChatAdapter.extract with a key                   *)

\* What a database file is to the adapter:
\*   "ok"        the derived key opens it and the expected tables are there
\*   "short"     the file has fewer than 16 bytes (no salt)
\*   "bad_key"   sqlcipher answers "file is not a database"
\*   "no_tables" it opens, the expected tables are missing
\* and, for contact.db, "absent".
DbConditions == {"ok", "short", "bad_key", "no_tables"}

\* a message database with its Msg_<hash> tables (each holds messages)
MsgDb(cond, tables) == [cond |-> cond, tables |-> tables]

MsgDbs == { MsgDb(c, t) : c \in DbConditions, t \in {<<"h1">>, <<"h1", "h2">>} }

\* Most message database files under the data root
MaxDbs == 3

MsgDbLists == UNION { [1..n -> MsgDbs] : n \in 1..MaxDbs }

ContactDbs == DbConditions \cup {"absent"}

\* the Conversation yielded for table t of database file i
Yielded(i, t, named) == [db |-> i, table |-> t, named |-> named]

\* _derive_raw_key raises ValueError on a file without 16 bytes of salt
DeriveRawKeyRaises(cond) == cond = "short"

\* _sqlcipher_query: None when the key is rejected, [] when the statement
\* gives no rows (also when its table is missing), the rows otherwise
SqlcipherQuery(cond) ==
    CASE cond = "bad_key" -> "None"
      [] cond = "no_tables" -> "empty"
      [] OTHER -> "rows"

\* the conversations _read_wcdb_v4_tables yields for database file i
ReadWcdbV4Tables(i, db, named) ==
    [k \in DOMAIN db.tables |-> Yielded(i, db.tables[k], named)]

WxInit ==
    /\ wx_pc = "start"
    /\ msg_dbs = <<>>
    /\ contact_db = "absent"
    /\ contact_map_loaded = FALSE
    /\ db_i = 1
    /\ wx_yielded = <<>>

\* extract() is called and iterated: the message databases are found
FindMessageDbs(dbs, contact) ==
    /\ wx_pc = "start"
    /\ msg_dbs' = dbs
    /\ contact_db' = contact
    /\ wx_pc' = "contacts"
    /\ UNCHANGED <<contact_map_loaded, db_i, wx_yielded>>
    /\ UNCHANGED notWxVars

\* _load_contact_map returns: the map is filled, or contact.db is absent, or
\* its query gave nothing
LoadContactMap ==
    /\ wx_pc = "contacts"
    /\ contact_db = "absent" \/ ~DeriveRawKeyRaises(contact_db)
    /\ contact_map_loaded' =
           (contact_db # "absent" /\ SqlcipherQuery(contact_db) = "rows")
    /\ wx_pc' = "loop"
    /\ UNCHANGED <<msg_dbs, contact_db, db_i, wx_yielded>>
    /\ UNCHANGED notWxVars

\* _load_contact_map raises out of extract(): nothing encloses the call
LoadContactMapRaises ==
    /\ wx_pc = "contacts"
    /\ contact_db # "absent" /\ DeriveRawKeyRaises(contact_db)
    /\ wx_pc' = "raised"
    /\ UNCHANGED <<msg_dbs, contact_db, contact_map_loaded, db_i, wx_yielded>>
    /\ UNCHANGED notWxVars

\* loop body: _extract_encrypted raises on the file, the except clause
\* prints and the loop goes on
SkipRaisingDb ==
    /\ wx_pc = "loop" /\ db_i <= Len(msg_dbs)
    /\ DeriveRawKeyRaises(msg_dbs[db_i].cond)
    /\ db_i' = db_i + 1
    /\ UNCHANGED <<wx_pc, msg_dbs, contact_db, contact_map_loaded, wx_yielded>>
    /\ UNCHANGED notWxVars

\* loop body: the key is rejected or no message table is found;
\* _extract_encrypted prints and returns without a conversation
SkipUnreadableDb ==
    /\ wx_pc = "loop" /\ db_i <= Len(msg_dbs)
    /\ ~DeriveRawKeyRaises(msg_dbs[db_i].cond)
    /\ SqlcipherQuery(msg_dbs[db_i].cond) # "rows"
    /\ db_i' = db_i + 1
    /\ UNCHANGED <<wx_pc, msg_dbs, contact_db, contact_map_loaded, wx_yielded>>
    /\ UNCHANGED notWxVars

\* loop body: the conversations of the file's Msg_ tables are yielded
YieldFromDb ==
    /\ wx_pc = "loop" /\ db_i <= Len(msg_dbs)
    /\ ~DeriveRawKeyRaises(msg_dbs[db_i].cond)
    /\ SqlcipherQuery(msg_dbs[db_i].cond) = "rows"
    /\ wx_yielded' = wx_yielded \o
           ReadWcdbV4Tables(db_i, msg_dbs[db_i], contact_map_loaded)
    /\ db_i' = db_i + 1
    /\ UNCHANGED <<wx_pc, msg_dbs, contact_db, contact_map_loaded>>
    /\ UNCHANGED notWxVars

\* the loop is over, the generator returns
ExtractReturns ==
    /\ wx_pc = "loop" /\ db_i > Len(msg_dbs)
    /\ wx_pc' = "done"
    /\ UNCHANGED <<msg_dbs, contact_db, contact_map_loaded, db_i, wx_yielded>>
    /\ UNCHANGED notWxVars

WxNext ==
    \/ \E dbs \in MsgDbLists, contact \in ContactDbs : FindMessageDbs(dbs, contact)
    \/ LoadContactMap
    \/ LoadContactMapRaises
    \/ SkipRaisingDb
    \/ SkipUnreadableDb
    \/ YieldFromDb
    \/ ExtractReturns

\* C8: a per-file failure on one database file (too short, key rejected,
\* tables missing), message database or contact database, only skips that
\* file: when extract has ended, the conversations of every message database
\* file that has no such failure have been yielded.
C8_FileFailureSkipsOnlyThatFile ==
    wx_pc \in {"done", "raised"} =>
        \A i \in DOMAIN msg_dbs :
            msg_dbs[i].cond = "ok" =>
                \A k \in DOMAIN msg_dbs[i].tables :
                    \E y \in DOMAIN wx_yielded :
                        /\ wx_yielded[y].db = i
                        /\ wx_yielded[y].table = msg_dbs[i].tables[k]

----------------------------------------------------------------------------
(* knowledge_harvester: the WCDB v4 row decoder                            *)

\* local_type values: the known kinds, unknown kinds, and kinds with a
\* sub-type in the high bits
KnownKinds == {1, 3, 34, 43, 47, 48, 49, 10000, 10002}
RawTypes == KnownKinds \cup {0, 50, 65536 + 1, 65536 + 50, 2 * 65536 + 49}

\* message_content as the query returns it: empty, whitespace, plain text,
\* appmsg markup, or the undecoded bytes of a compressed payload
Contents == {"", " ", "hello", "<msg>", "bytes"}

ContentIsBlank(c) == c \in {"", " "}
StartsWithMarkup(c) == c = "<msg>"

\* hex(message_content) of a compressed row: not hex at all, hex without
\* the Zstandard magic, magic with a frame the decoder rejects, and frames
\* that decode to text, to markup and to the empty string
HexContents == {"zz", "00", "28b52ffd-corrupt", "28b52ffd-hi", "28b52ffd-msg",
                "28b52ffd-empty"}

CompressedTextPlaceholder == "[compressed text]"
LinkPlaceholder == "[link/file]"

\* The rows the query of _read_wcdb_v4_tables can return: the hex column is
\* '' unless WCDB_CT_message_content != 0, and then it is the hex of the
\* content column (empty exactly when that is empty)
Rows ==
    { r \in [local_type : RawTypes, status : {2, 3}, create_time : {0, 1700000000},
             message_content : Contents, compression : {0, 4},
             hex_content : HexContents \cup {""}, well_formed : BOOLEAN] :
        /\ r.compression = 0 => r.hex_content = ""
        /\ r.compression # 0 => (r.hex_content = "" <=> r.message_content = "") }

\* _decompress_content: the decoded text, None on any failure
DecompressContent(hex_content, decompressor) ==
    IF hex_content = "" \/ ~decompressor THEN None
    ELSE CASE hex_content = "28b52ffd-hi" -> Some("hi")
           [] hex_content = "28b52ffd-msg" -> Some("<msg>")
           [] hex_content = "28b52ffd-empty" -> Some("")
           [] OTHER -> None

\* _parse_type49_xml: (inline label, media)
ParseType49Xml(content) ==
    IF ContentIsBlank(content) THEN <<LinkPlaceholder, <<>>>>
    ELSE IF StartsWithMarkup(content) THEN <<"[link: title]", <<"link">>>>
    ELSE <<LinkPlaceholder, <<>>>>

V4Message(is_sender, content, create_time, content_type, media) ==
    Some([role |-> IF is_sender THEN "user" ELSE "assistant",
          content |-> content,
          timestamp |-> IF create_time # 0 THEN "iso" ELSE "",
          content_type |-> content_type,
          media |-> media])

\* mutant: a row of unknown kind is dropped on blank content only
UnknownKindDropped_Mut(content, compression) == ContentIsBlank(content)

\* the test of the last branch of the kind dispatch (unknown non-text type)
UnknownKindDropped(content, compression) ==
    ContentIsBlank(content) \/ compression # 0

\* mutant: the placeholder replaces the content of a row of any kind
ContentAfterFailure_Mut(msg_type, content) == CompressedTextPlaceholder

\* the content a row goes on with when its payload was not recovered
ContentAfterFailure(msg_type, content) ==
    IF msg_type = 1 THEN CompressedTextPlaceholder ELSE content

\* WeChatAdapter._parse_v4_msg_row
ParseV4MsgRow(r, decompressor) ==
    IF ~r.well_formed THEN None
    ELSE
    LET msg_type == r.local_type % 65536
        attempted == r.compression # 0 /\ r.hex_content # ""
        decompressed == DecompressContent(r.hex_content, decompressor)
        recovered == attempted /\ decompressed.some /\ decompressed.val # ""
        content == IF recovered THEN decompressed.val
                   ELSE IF attempted THEN ContentAfterFailure(msg_type, r.message_content)
                   ELSE r.message_content
        compression == IF recovered THEN 0 ELSE r.compression
        is_sender == r.status = 3
    IN IF ContentIsBlank(content) /\ msg_type = 1 THEN None
       ELSE CASE msg_type = 3 ->
                    V4Message(is_sender, "[image]", r.create_time, "image", <<"image">>)
              [] msg_type = 34 ->
                    V4Message(is_sender, "[voice]", r.create_time, "audio", <<"voice">>)
              [] msg_type = 43 ->
                    V4Message(is_sender, "[video]", r.create_time, "video", <<"video">>)
              [] msg_type = 47 ->
                    V4Message(is_sender, "[sticker]", r.create_time, "sticker", <<>>)
              [] msg_type = 48 ->
                    V4Message(is_sender, "[location]", r.create_time, "location", <<>>)
              [] msg_type = 49 ->
                    IF compression # 0 /\ ~StartsWithMarkup(content)
                    THEN V4Message(is_sender, LinkPlaceholder, r.create_time, "link", <<>>)
                    ELSE V4Message(is_sender, ParseType49Xml(content)[1], r.create_time,
                                   "link", ParseType49Xml(content)[2])
              [] msg_type \in {1, 10000, 10002} ->
                    V4Message(is_sender, content, r.create_time, "text", <<>>)
              [] OTHER ->
                    IF UnknownKindDropped(content, compression) THEN None
                    ELSE V4Message(is_sender, content, r.create_time, "text", <<>>)

RowInit ==
    /\ row_pc = "start"
    /\ row = [local_type |-> 0, status |-> 2, create_time |-> 0,
              message_content |-> "", compression |-> 0, hex_content |-> "",
              well_formed |-> TRUE]
    /\ zstd_decompressor = FALSE
    /\ row_result = None

\* a call self._parse_v4_msg_row(row)
ParseRow(r, decompressor) ==
    /\ row_pc = "start"
    /\ row' = r
    /\ zstd_decompressor' = decompressor
    /\ row_result' = ParseV4MsgRow(r, decompressor)
    /\ row_pc' = "done"
    /\ UNCHANGED notRowVars

RowNext == \E r \in Rows, decompressor \in BOOLEAN : ParseRow(r, decompressor)

\* the message kind of the decoded row: the low 16 bits of its raw type
RowKind == row.local_type % 65536

\* the compression tag is set and the payload is not recovered: no hex copy,
\* hex invalid, magic bytes absent, decoder error or decoder unavailable
RowRecoveryFails ==
    /\ row.compression # 0
    /\ \/ row.hex_content \in {"", "zz", "00", "28b52ffd-corrupt"}
       \/ ~zstd_decompressor

\* the payload of a compressed row was decoded to a non-empty text
RowRecovered ==
    /\ row.compression # 0 /\ zstd_decompressor
    /\ row.hex_content \in {"28b52ffd-hi", "28b52ffd-msg"}

RowRecoveredText == IF row.hex_content = "28b52ffd-hi" THEN "hi" ELSE "<msg>"

\* C9 as stated: a row whose kind is not one of 1, 3, 34, 43, 47, 48, 49,
\* 10000, 10002 never produces a Message, whatever its content and
\* compression tag.
C9_UnknownKindAlwaysDropped ==
    (row_pc = "done" /\ RowKind \notin KnownKinds) => ~row_result.some

\* C9 as amended: a well-formed row of unknown kind is dropped exactly when
\* its content is blank or its compression tag is set and the payload was
\* not recovered; otherwise it produces a text Message with that content.
C9_UnknownKindDroppedWhenUnreadable ==
    (row_pc = "done" /\ row.well_formed /\ RowKind \notin KnownKinds) =>
        LET text == IF RowRecovered THEN RowRecoveredText ELSE row.message_content
            unreadable == text \in {"", " "} \/ (row.compression # 0 /\ ~RowRecovered)
        IN IF unreadable THEN ~row_result.some
           ELSE /\ row_result.some
                /\ row_result.val.content_type = "text"
                /\ row_result.val.content = text
                /\ row_result.val.media = <<>>

\* a row of unknown kind with readable content was decoded and kept
C9_Witness ==
    /\ row_pc = "done" /\ row.well_formed /\ RowKind = 50
    /\ row.compression = 0 /\ row.message_content = "hello"
    /\ row_result.some

\* C10 as stated: when the compression tag is non-zero and recovering the
\* payload fails, a kind=1 row yields a text message whose content is the
\* compressed-text placeholder, and a row of any other kind is dropped.
C10_FailureDropsOtherKinds ==
    (row_pc = "done" /\ row.well_formed /\ RowRecoveryFails) =>
        IF RowKind = 1
        THEN /\ row_result.some
             /\ row_result.val.content_type = "text"
             /\ row_result.val.content = CompressedTextPlaceholder
        ELSE ~row_result.some

\* C10 as amended: when the compression tag is non-zero, the row carries a
\* hex copy and recovering the payload fails, a kind=1 row yields a text
\* message whose content is the compressed-text placeholder, a row of an
\* unknown kind is dropped, and a row of kind 3, 34, 43, 47, 48, 49, 10000 or
\* 10002 is not dropped: it yields its Message, whose content is not the
\* compressed-text placeholder.
C10_FailureKeepsKnownKinds ==
    (row_pc = "done" /\ row.well_formed /\ RowRecoveryFails /\ row.hex_content # "") =>
        IF RowKind = 1
        THEN /\ row_result.some
             /\ row_result.val.content_type = "text"
             /\ row_result.val.content = CompressedTextPlaceholder
        ELSE IF RowKind \notin KnownKinds THEN ~row_result.some
        ELSE /\ row_result.some
             /\ row_result.val.content # CompressedTextPlaceholder

\* a compressed image row whose payload could not be recovered was decoded
C10_Witness ==
    /\ row_pc = "done" /\ row.well_formed /\ RowRecoveryFails
    /\ row.hex_content = "00" /\ RowKind = 3
    /\ row_result.some

----------------------------------------------------------------------------
(* session_history: ReadableReplayGenerator.generate                       *)

\* Turn.timestamp as _build_filename_from_timestamp reads it: at least 16
\* characters (date, HH:MM and the rest), 10 to 15 (a date), or shorter
FullTs(date, hhmm, rest) == [len |-> "16+", date |-> date, hhmm |-> hhmm, rest |-> rest]
DateTs(date) == [len |-> "10+", date |-> date, hhmm |-> "", rest |-> ""]
ShortTs == [len |-> "<10", date |-> "", hhmm |-> "", rest |-> ""]

ReplayTurn(n, narrative, text, ts) ==
    [turn_number |-> n, tool_narrative |-> narrative, text |-> text, timestamp |-> ts]

\* a session file: id (first 8 characters and the rest), whether the
\* file exists, the person of its path and the turns extract_turns returns
ReplaySession(id, exists, person, ts) ==
    [session_id |-> id, exists |-> exists, person |-> person, turns |-> ts]

SessionIds == { <<"aaaaaaaa", "-1">>, <<"bbbbbbbb", "-2">>, <<"cccccccc", "-3">> }

\* what a session file can hold, whatever its id
SessionContents ==
    { [exists |-> FALSE, person |-> "alice", turns |-> <<>>],
      [exists |-> TRUE, person |-> "alice", turns |-> <<>>],
      [exists |-> TRUE, person |-> "alice", turns |->
          << ReplayTurn(1, {"p1"}, {}, FullTs("2024-01-01", "10:00", ":05")),
             ReplayTurn(2, {"p2"}, {}, FullTs("2024-01-01", "10:07", ":00")) >>],
      [exists |-> TRUE, person |-> "alice", turns |->
          << ReplayTurn(1, {"p2"}, {}, FullTs("2024-01-01", "09:58", ":00")),
             ReplayTurn(2, {}, {"w1"}, FullTs("2024-01-01", "10:00", ":40")) >>],
      [exists |-> TRUE, person |-> "alice", turns |->
          << ReplayTurn(1, {"p2"}, {}, FullTs("2024-01-01", "11:30", ":00")) >>],
      [exists |-> TRUE, person |-> "bob", turns |->
          << ReplayTurn(1, {}, {"w1"}, FullTs("2024-01-01", "10:00", ":05")) >>],
      [exists |-> TRUE, person |-> "alice", turns |->
          << ReplayTurn(1, {}, {}, DateTs("2024-01-01")),
             ReplayTurn(2, {"p1"}, {}, FullTs("2024-01-01", "12:00", ":00")) >>],
      [exists |-> TRUE, person |-> "bob", turns |->
          << ReplayTurn(2, {}, {"w1"}, ShortTs) >>] }

\* Longest list of session references of an entity index
MaxRefs == 2

\* the session lists of an entity index: distinct session files
SessionLists ==
    UNION { { [i \in 1..n |-> ReplaySession(ids[i], cs[i].exists, cs[i].person, cs[i].turns)] :
                ids \in { f \in [1..n -> SessionIds] :
                            \A i, j \in 1..n : f[i] = f[j] => i = j },
                cs \in [1..n -> SessionContents] } : n \in 0..MaxRefs }

\* the entity ids an index can carry: two spec entities, a source entity
IndexEntityIds == {"spec:01_foo", "spec:02_bar", "source:foo"}

\* the registries discover_all can return
Registries == { <<E1, E2>>, <<SrcEntity, E2, E1>>, <<E2>> }

\* ReadableReplayGenerator._find_entity
FindEntity(entity_id, entities) ==
    LET Same(e) == e.entity_id = entity_id
        found == SelectSeq(entities, Same)
    IN IF found = <<>> THEN None ELSE Some(Head(found))

\* mutant: the turns of every classified segment are collected
CollectMatchingTurns_Mut(segs, target_entity) ==
    LET Matching(seg) == seg.entity.some
    IN Flatten([i \in DOMAIN SelectSeq(segs, Matching) |->
                    SelectSeq(segs, Matching)[i].turns])

\* ReadableReplayGenerator._collect_matching_turns
CollectMatchingTurns(segs, target_entity) ==
    LET Matching(seg) ==
            seg.entity.some /\ seg.entity.val.entity_id = target_entity.entity_id
    IN Flatten([i \in DOMAIN SelectSeq(segs, Matching) |->
                    SelectSeq(segs, Matching)[i].turns])

\* the turns generate writes for a session (lines 74-85)
MatchingTurns(session, entities, current) ==
    IF current.some
    THEN LET matching == CollectMatchingTurns(
                            ClassifyTurnsResult(session.turns, entities), current.val)
         IN IF matching = <<>> THEN session.turns ELSE matching
    ELSE session.turns

\* ReadableReplayGenerator._build_filename_from_timestamp
BuildFilenameFromTimestamp(person, ts, session) ==
    IF ts.len = "16+" THEN <<person, ts.date, ts.hhmm>>
    ELSE IF ts.len = "10+" THEN <<person, ts.date, "00-00">>
    ELSE <<person, session.session_id[1]>>

\* ReadableReplayGenerator._build_filename_from_turns
BuildFilenameFromTurns(person, ts, session) ==
    BuildFilenameFromTimestamp(person, IF ts # <<>> THEN ts[1].timestamp ELSE ShortTs,
                               session)

ReplayFile(name, session, ts) ==
    [name |-> name, session_id |-> session.session_id, turns |-> ts]

\* _write_session_file: open(output_path, "w") replaces what the path held
WriteSessionFile(dir, name, session, ts) ==
    {f \in dir : f.name # name} \cup {ReplayFile(name, session, ts)}

\* a file a previous run left in replay/
StaleFile ==
    [name |-> <<"carol", "2023-12-31", "08:00">>, session_id |-> <<"dddddddd", "-4">>,
     turns |-> << ReplayTurn(1, {"p2"}, {}, FullTs("2023-12-31", "08:00", ":00")) >>]

ReplayInit ==
    /\ rp_pc = "start"
    /\ entity_index = [entity_id |-> "spec:01_foo", sessions |-> <<>>]
    /\ all_entities = <<>>
    /\ rp_current_entity = None
    /\ ref_i = 1
    /\ replay_dir = {StaleFile}
    /\ generated_files = <<>>

\* generate up to the loop: the directory is cleared, the entity looked up
GenerateStart(entity_id, sessions, entities) ==
    /\ rp_pc = "start"
    /\ entity_index' = [entity_id |-> entity_id, sessions |-> sessions]
    /\ all_entities' = entities
    /\ rp_current_entity' = FindEntity(entity_id, entities)
    /\ replay_dir' = {}
    /\ generated_files' = <<>>
    /\ ref_i' = 1
    /\ rp_pc' = "loop"
    /\ UNCHANGED notReplayVars

InReplayLoop == rp_pc = "loop" /\ ref_i <= Len(entity_index.sessions)

\* the session file does not exist: continue
SkipMissingSession ==
    /\ InReplayLoop
    /\ ~entity_index.sessions[ref_i].exists
    /\ ref_i' = ref_i + 1
    /\ UNCHANGED <<rp_pc, entity_index, all_entities, rp_current_entity, replay_dir,
                   generated_files>>
    /\ UNCHANGED notReplayVars

\* the session has no turns: continue
SkipSessionWithoutTurns ==
    /\ InReplayLoop
    /\ entity_index.sessions[ref_i].exists
    /\ entity_index.sessions[ref_i].turns = <<>>
    /\ ref_i' = ref_i + 1
    /\ UNCHANGED <<rp_pc, entity_index, all_entities, rp_current_entity, replay_dir,
                   generated_files>>
    /\ UNCHANGED notReplayVars

\* the rest of the loop body: the turns of the entity are written
WriteReplay ==
    /\ InReplayLoop
    /\ entity_index.sessions[ref_i].exists
    /\ entity_index.sessions[ref_i].turns # <<>>
    /\ LET session == entity_index.sessions[ref_i]
           matching_turns == MatchingTurns(session, all_entities, rp_current_entity)
           filename == BuildFilenameFromTurns(session.person, matching_turns, session)
       IN /\ replay_dir' = WriteSessionFile(replay_dir, filename, session, matching_turns)
          /\ generated_files' = Append(generated_files, filename)
    /\ ref_i' = ref_i + 1
    /\ UNCHANGED <<rp_pc, entity_index, all_entities, rp_current_entity>>
    /\ UNCHANGED notReplayVars

\* return generated_files
GenerateReturns ==
    /\ rp_pc = "loop"
    /\ ref_i > Len(entity_index.sessions)
    /\ rp_pc' = "done"
    /\ UNCHANGED <<entity_index, all_entities, rp_current_entity, ref_i, replay_dir,
                   generated_files>>
    /\ UNCHANGED notReplayVars

ReplayNext ==
    \/ \E entity_id \in IndexEntityIds, sessions \in SessionLists, entities \in Registries :
            GenerateStart(entity_id, sessions, entities)
    \/ SkipMissingSession
    \/ SkipSessionWithoutTurns
    \/ WriteReplay
    \/ GenerateReturns

\* the indexed session a replay file was written for
C11_SessionOf(f) ==
    CHOOSE s \in Range(entity_index.sessions) : s.session_id = f.session_id

\* the turns of a session that the segmenter put in a segment of the
\* index's entity
C11_TurnsOfEntity(session) ==
    LET segs == ClassifyTurnsResult(session.turns, all_entities)
    IN { t \in Range(session.turns) :
            \E i \in DOMAIN segs :
                /\ segs[i].entity.some
                /\ segs[i].entity.val.entity_id = entity_index.entity_id
                /\ t \in Range(segs[i].turns) }

C12_WrittenSessions ==
    { s \in Range(entity_index.sessions) : s.exists /\ s.turns # <<>> }

\* C12: after generate the number of files in replay/ equals the number of
\* indexed sessions that exist and have at least one turn, one file per
\* session.
C12_OneFilePerSession ==
    rp_pc = "done" =>
        /\ Cardinality(replay_dir) = Cardinality(C12_WrittenSessions)
        /\ \A s \in C12_WrittenSessions :
              \E f \in replay_dir : f.session_id = s.session_id

----------------------------------------------------------------------------
(* session_history: IndexGenerator.build_entity_index                      *)

\* SessionReference.start_time: None, the empty string, or an ISO time.
\* StartTimeRank is the place of the sort key (r.start_time or "") in the
\* order of strings: "" first, then the times as they follow each other.
StartTimes == {"None", "", "2024-01-01T10:00", "2024-01-02T09:30"}

StartTimeRank(t) ==
    CASE t \in {"None", ""} -> 0
      [] t = "2024-01-01T10:00" -> 1
      [] t = "2024-01-02T09:30" -> 2

SessionReference(id, t) == [session_id |-> id, start_time |-> t]

ReferenceIds == {"s1", "s2", "s3", "s4"}

\* Longest list of references given to build_entity_index
MaxIndexRefs == 3

\* reference lists: one reference per session
ReferenceLists ==
    UNION { { [i \in 1..n |-> SessionReference(ids[i], ts[i])] :
                ids \in { f \in [1..n -> ReferenceIds] :
                            \A i, j \in 1..n : f[i] = f[j] => i = j },
                ts \in [1..n -> StartTimes] } : n \in 0..MaxIndexRefs }

\* mutant: sorted ascending and then reversed, which turns equal keys around
RECURSIVE SortedByStartTimeDesc_Mut(_)
SortedByStartTimeDesc_Mut(refs) ==
    IF refs = <<>> THEN <<>>
    ELSE LET r == refs[Len(refs)]
             rest == SortedByStartTimeDesc_Mut(SubSeq(refs, 1, Len(refs) - 1))
             Before(x) == StartTimeRank(x.start_time) > StartTimeRank(r.start_time)
             NotBefore(x) == ~Before(x)
         IN SelectSeq(rest, Before) \o <<r>> \o SelectSeq(rest, NotBefore)

\* sorted(references, key=lambda r: r.start_time or "", reverse=True): a
\* stable sort, each reference placed behind those of a greater or equal key
RECURSIVE SortedByStartTimeDesc(_)
SortedByStartTimeDesc(refs) ==
    IF refs = <<>> THEN <<>>
    ELSE LET r == refs[Len(refs)]
             rest == SortedByStartTimeDesc(SubSeq(refs, 1, Len(refs) - 1))
             Before(x) == StartTimeRank(x.start_time) >= StartTimeRank(r.start_time)
             NotBefore(x) == ~Before(x)
         IN SelectSeq(rest, Before) \o <<r>> \o SelectSeq(rest, NotBefore)

IndexInit ==
    /\ bi_pc = "start"
    /\ references = <<>>
    /\ built_index = <<>>

\* a call build_entity_index(entity, references)
BuildEntityIndex(refs) ==
    /\ bi_pc = "start"
    /\ references' = refs
    /\ built_index' = SortedByStartTimeDesc(refs)
    /\ bi_pc' = "done"
    /\ UNCHANGED notIndexVars

IndexNext == \E refs \in ReferenceLists : BuildEntityIndex(refs)

\* position of a session in a reference list
C17_Pos(refs, id) == CHOOSE i \in DOMAIN refs : refs[i].session_id = id

\* C17: the index lists the references given, ordered by start_time
\* descending with a missing start_time counted as "" and so last, and
\* references of equal start_time in their input order.
C17_SortedDescendingAndStable ==
    bi_pc = "done" =>
        /\ Len(built_index) = Len(references)
        /\ Range(built_index) = Range(references)
        /\ \A i, j \in DOMAIN built_index :
              i < j =>
                LET a == built_index[i]
                    b == built_index[j]
                IN \/ StartTimeRank(a.start_time) > StartTimeRank(b.start_time)
                   \/ /\ StartTimeRank(a.start_time) = StartTimeRank(b.start_time)
                      /\ C17_Pos(references, a.session_id)
                            < C17_Pos(references, b.session_id)

\* an index was built from references of which the first has no start_time
\* and two later ones share a start_time
C17_Witness ==
    /\ bi_pc = "done" /\ Len(references) = 3
    /\ references[1].start_time = "None"
    /\ references[2].start_time = references[3].start_time
    /\ references[2].start_time = "2024-01-01T10:00"
    /\ built_index = <<references[2], references[3], references[1]>>

----------------------------------------------------------------------------
(* session_history: Settings._load_config and CompositeClassifier.classify *)

\* Weights are counted in hundredths, signal scores in tenths, confidences
\* and the threshold in thousandths.
Weights(fp, tp, kw) == [file_path |-> fp, text_pattern |-> tp, keyword |-> kw]

DefaultWeights == Weights(50, 35, 15)
DefaultThreshold == 150

\* no .session-history.json
NoConfig == [exists |-> FALSE, has_weights |-> FALSE, signal_weights |-> DefaultWeights,
             has_threshold |-> FALSE, classification_threshold |-> DefaultThreshold]

\* the weights a .session-history.json can state: valid ones, a negative
\* weight, weights that sum to more or to less than 1
ConfigWeights ==
    { Weights(50, 35, 15), Weights(100, 0, 0), Weights(60, 50, -10),
      Weights(50, 50, 50), Weights(20, 20, 20) }

ConfigThresholds == {0, 150, 500}

Configs ==
    {NoConfig}
    \cup { [exists |-> TRUE, has_weights |-> TRUE, signal_weights |-> w,
            has_threshold |-> ht,
            classification_threshold |-> IF ht THEN t ELSE DefaultThreshold] :
              w \in ConfigWeights, ht \in BOOLEAN, t \in ConfigThresholds }
    \cup { [exists |-> TRUE, has_weights |-> FALSE, signal_weights |-> DefaultWeights,
            has_threshold |-> TRUE, classification_threshold |-> t] :
              t \in ConfigThresholds }

\* the scores of the three signals for an entity
Scores(fp, tp, kw) == [file_path |-> fp, text_pattern |-> tp, keyword |-> kw]

SignalScores ==
    { Scores(0, 0, 0), Scores(0, 0, 10), Scores(10, 0, 0), Scores(0, 5, 5),
      Scores(10, 10, 10), Scores(5, 0, 10) }

\* Longest entity list given to classify
MaxEntities == 3

\* entity lists: the k-th entity of the registry with its scores
ScoredEntityLists ==
    UNION { { [i \in 1..n |-> [entity_id |-> i, scores |-> sc[i]]] :
                sc \in [1..n -> SignalScores] } : n \in 0..MaxEntities }

\* the weighted sum of classify
Confidence(scores, weights) ==
    scores.file_path * weights.file_path
    + scores.text_pattern * weights.text_pattern
    + scores.keyword * weights.keyword

\* mutant: a confidence equal to the threshold is no match
IsMatch_Mut(confidence, threshold) == confidence > threshold

IsMatch(confidence, threshold) == confidence >= threshold

EntityMatch(e, weights) ==
    [entity_id |-> e.entity_id, confidence |-> Confidence(e.scores, weights)]

\* the for loop of classify: the matches in entity order
RECURSIVE CollectMatches(_, _, _)
CollectMatches(entities, weights, threshold) ==
    IF entities = <<>> THEN <<>>
    ELSE LET rest == CollectMatches(Tail(entities), weights, threshold)
             m == EntityMatch(Head(entities), weights)
         IN IF IsMatch(m.confidence, threshold) THEN <<m>> \o rest ELSE rest

\* matches.sort(key=lambda m: m.confidence, reverse=True): a stable sort
RECURSIVE SortedByConfidenceDesc(_)
SortedByConfidenceDesc(ms) ==
    IF ms = <<>> THEN <<>>
    ELSE LET m == ms[Len(ms)]
             rest == SortedByConfidenceDesc(SubSeq(ms, 1, Len(ms) - 1))
             Before(x) == x.confidence >= m.confidence
             NotBefore(x) == ~Before(x)
         IN SelectSeq(rest, Before) \o <<m>> \o SelectSeq(rest, NotBefore)

ClassifyInit ==
    /\ cl_pc = "start"
    /\ signal_weights = DefaultWeights
    /\ classification_threshold = DefaultThreshold
    /\ cl_entities = <<>>
    /\ matches = <<>>

\* Settings(): __post_init__ merges the config file, if there is one
LoadConfig(config) ==
    /\ cl_pc = "start"
    /\ signal_weights' = IF config.exists /\ config.has_weights
                         THEN config.signal_weights ELSE signal_weights
    /\ classification_threshold' = IF config.exists /\ config.has_threshold
                                   THEN config.classification_threshold
                                   ELSE classification_threshold
    /\ cl_pc' = "loaded"
    /\ UNCHANGED <<cl_entities, matches>>
    /\ UNCHANGED notClassifyVars

\* CompositeClassifier(settings).classify(session, entities)
Classify(entities) ==
    /\ cl_pc = "loaded"
    /\ cl_entities' = entities
    /\ matches' = SortedByConfidenceDesc(
                      CollectMatches(entities, signal_weights, classification_threshold))
    /\ cl_pc' = "done"
    /\ UNCHANGED <<signal_weights, classification_threshold>>
    /\ UNCHANGED notClassifyVars

ClassifyNext ==
    \/ \E config \in Configs : LoadConfig(config)
    \/ \E entities \in ScoredEntityLists : Classify(entities)

\* the weighted confidence of an entity as the claim states it
C18_Confidence(e) ==
    signal_weights.file_path * e.scores.file_path
    + signal_weights.text_pattern * e.scores.text_pattern
    + signal_weights.keyword * e.scores.keyword

\* C18: classify returns as matches exactly the entities whose weighted
\* confidence is at least the threshold, each once, with that confidence,
\* in non-increasing order of confidence.
C18_MatchesAtOrAboveThreshold ==
    cl_pc = "done" =>
        /\ { matches[i].entity_id : i \in DOMAIN matches } =
              { cl_entities[k].entity_id : k \in
                    { k \in DOMAIN cl_entities :
                        C18_Confidence(cl_entities[k]) >= classification_threshold } }
        /\ \A i, j \in DOMAIN matches :
              matches[i].entity_id = matches[j].entity_id => i = j
        /\ \A i \in DOMAIN matches :
              matches[i].confidence = C18_Confidence(cl_entities[matches[i].entity_id])
        /\ \A i, j \in DOMAIN matches :
              i < j => matches[i].confidence >= matches[j].confidence

\* three entities were classified with the default settings: one below the
\* threshold, one exactly at it, one above it
C18_Witness ==
    /\ cl_pc = "done"
    /\ signal_weights = DefaultWeights /\ classification_threshold = DefaultThreshold
    /\ cl_entities = << [entity_id |-> 1, scores |-> Scores(0, 0, 0)],
                        [entity_id |-> 2, scores |-> Scores(0, 0, 10)],
                        [entity_id |-> 3, scores |-> Scores(10, 0, 0)] >>
    /\ matches = << [entity_id |-> 3, confidence |-> 500],
                    [entity_id |-> 2, confidence |-> 150] >>

\* weights are valid: none negative, and they sum to 1
C20_ValidWeights(w) ==
    /\ w.file_path >= 0 /\ w.text_pattern >= 0 /\ w.keyword >= 0
    /\ w.file_path + w.text_pattern + w.keyword = 100

\* C20: a configuration with invalid signal weights is rejected when it is
\* loaded: the settings never hold such weights and classification never
\* runs with them.
C20_InvalidWeightsRejected ==
    cl_pc \in {"loaded", "done"} => C20_ValidWeights(signal_weights)

----------------------------------------------------------------------------
(* knowledge_harvester: Message.to_dict and _media_ref_to_dict             *)

MediaRef(type, path, original_url, filename, size_bytes, description, summary) ==
    [type |-> type, path |-> path, original_url |-> original_url,
     filename |-> filename, size_bytes |-> size_bytes,
     description |-> description, summary |-> summary]

MediaRefs ==
    { MediaRef("image", "", "", "", 0, "", ""),
      MediaRef("file", "/tmp/a.pdf", "", "a.pdf", 2048, "", ""),
      MediaRef("link", "", "https://x", "", 0, "about x", "short") }

MediaLists == { <<>> } \cup { <<m>> : m \in MediaRefs }
                \cup { <<MediaRef("image", "", "", "", 0, "", ""),
                         MediaRef("file", "/tmp/a.pdf", "", "a.pdf", 2048, "", "")>> }

\* the Message dataclass with all its fields
MessageOf(role, content, timestamp, message_id, content_type, media) ==
    [role |-> role, content |-> content, timestamp |-> timestamp,
     message_id |-> message_id, content_type |-> content_type, media |-> media]

Messages ==
    { MessageOf(r, c, t, id, ct, md) :
        r \in {"user", "assistant"}, c \in {"", "hello"},
        t \in {"", "2024-01-01T00:00:00+00:00"}, id \in {"", "msg-123"},
        ct \in {"text", "image", "mixed"}, md \in MediaLists }

\* a dict of one key, or the empty dict
Entry(present, key, value) == IF present THEN key :> value ELSE <<>>

\* _media_ref_to_dict
MediaRefToDict(m) ==
    ("type" :> m.type)
    @@ Entry(m.path # "", "path", m.path)
    @@ Entry(m.original_url # "", "original_url", m.original_url)
    @@ Entry(m.filename # "", "filename", m.filename)
    @@ Entry(m.size_bytes # 0, "size_bytes", m.size_bytes)
    @@ Entry(m.description # "", "description", m.description)
    @@ Entry(m.summary # "", "summary", m.summary)

\* mutant: message_id is written whether empty or not
ToDict_Mut(msg) ==
    [role |-> msg.role, content |-> msg.content, timestamp |-> msg.timestamp,
     message_id |-> msg.message_id]
    @@ Entry(msg.content_type # "text", "content_type", msg.content_type)
    @@ Entry(msg.media # <<>>, "media",
             [i \in DOMAIN msg.media |-> MediaRefToDict(msg.media[i])])

\* Message.to_dict
ToDict(msg) ==
    [role |-> msg.role, content |-> msg.content, timestamp |-> msg.timestamp]
    @@ Entry(msg.message_id # "", "message_id", msg.message_id)
    @@ Entry(msg.content_type # "text", "content_type", msg.content_type)
    @@ Entry(msg.media # <<>>, "media",
             [i \in DOMAIN msg.media |-> MediaRefToDict(msg.media[i])])

ToDictInit ==
    /\ td_pc = "start"
    /\ td_message = MessageOf("user", "", "", "", "text", <<>>)
    /\ td_result = <<>>

\* a call msg.to_dict()
ToDictCall(msg) ==
    /\ td_pc = "start"
    /\ td_message' = msg
    /\ td_result' = ToDict(msg)
    /\ td_pc' = "done"
    /\ UNCHANGED notToDictVars

ToDictNext == \E msg \in Messages : ToDictCall(msg)

\* C19 as stated: a key is in the serialised message only if the field is
\* not empty, and content_type only if it is not "text".
C19_OmitsEveryEmptyField ==
    td_pc = "done" =>
        /\ "role" \in DOMAIN td_result => td_message.role # ""
        /\ "content" \in DOMAIN td_result => td_message.content # ""
        /\ "timestamp" \in DOMAIN td_result => td_message.timestamp # ""
        /\ "message_id" \in DOMAIN td_result => td_message.message_id # ""
        /\ "content_type" \in DOMAIN td_result => td_message.content_type # "text"
        /\ "media" \in DOMAIN td_result => td_message.media # <<>>

\* the keys of a serialised media reference: type and its non-empty fields
C19_MediaKeys(m) ==
    {"type"} \cup {k \in {"path", "original_url", "filename", "description", "summary"} :
                     m[k] # ""}
             \cup (IF m.size_bytes # 0 THEN {"size_bytes"} ELSE {})

\* C19 as amended: the serialised message always holds role, content and
\* timestamp, empty or not; message_id is there exactly when it is not
\* empty, content_type exactly when it is not "text", media exactly when
\* the list is not empty; every key holds the field's value, and a media
\* reference is written with its type and its non-empty fields only.
C19_OmitsEmptyOptionalFields ==
    td_pc = "done" =>
        /\ DOMAIN td_result =
              {"role", "content", "timestamp"}
              \cup (IF td_message.message_id # "" THEN {"message_id"} ELSE {})
              \cup (IF td_message.content_type # "text" THEN {"content_type"} ELSE {})
              \cup (IF td_message.media # <<>> THEN {"media"} ELSE {})
        /\ \A k \in DOMAIN td_result \ {"media"} : td_result[k] = td_message[k]
        /\ "media" \in DOMAIN td_result =>
              /\ Len(td_result["media"]) = Len(td_message.media)
              /\ \A i \in DOMAIN td_message.media :
                    /\ DOMAIN td_result["media"][i] = C19_MediaKeys(td_message.media[i])
                    /\ \A k \in DOMAIN td_result["media"][i] :
                          td_result["media"][i][k] = td_message.media[i][k]

\* a message without timestamp, message_id and media was serialised
C19_Witness ==
    /\ td_pc = "done"
    /\ td_message = MessageOf("user", "hello", "", "", "text", <<>>)
    /\ td_result = [role |-> "user", content |-> "hello", timestamp |-> ""]

----------------------------------------------------------------------------
(* knowledge_harvester: cmd_apply_policy and build_conversation_meta       *)

\* an entry of index.json as Conversation.to_index_entry writes it; the
\* metadata is a dict whose keys may be missing
IndexEntry(id, message_count, last_message_time, metadata) ==
    [id |-> id, message_count |-> message_count,
     last_message_time |-> last_message_time, metadata |-> metadata]

\* the index Storage.save_conversation left for three conversations of the
\* WeChat adapter, whose metadata holds is_group (and table, username,
\* db_file) but no last_message_time
StoredIndex ==
    << IndexEntry("c1", 120, IsoTime(99), [is_group |-> TRUE]),
       IndexEntry("c2", 5, IsoTime(50), [is_group |-> FALSE]),
       IndexEntry("c3", 30, IsoTime(93), [is_group |-> FALSE]) >>

\* the policy files the command is run with
ApplyPolicies ==
    { [default_tier |-> dt, rules |-> rs] :
        dt \in DefaultTiers,
        rs \in { <<>>,
                 << FilterRule("grp-5", [is_group |-> TRUE], "exclude", 5) >>,
                 << FilterRule("small-20", [max_messages |-> 10], "exclude", 20) >>,
                 << FilterRule("active-10", [active_within_days |-> 7], "keep", 10) >>,
                 << FilterRule("dormant-10", [dormant_days |-> 30], "exclude", 10) >>,
                 << FilterRule("big-5", [min_messages |-> 50], "keep", 5),
                    FilterRule("small-20", [max_messages |-> 10], "exclude", 20) >> } }

\* Most runs of cmd_apply_policy in a behaviour
MaxApplyRuns == 2

\* build_conversation_meta
BuildConversationMeta(conv_entry) ==
    LET metadata == conv_entry.metadata
    IN [is_group |-> IF Has(metadata, "is_group") THEN metadata.is_group ELSE FALSE,
        message_count |-> conv_entry.message_count,
        last_message_time |-> IF Has(metadata, "last_message_time")
                              THEN metadata.last_message_time ELSE NoTime]

ApplyInit ==
    /\ ap_pc = "idle"
    /\ ap_runs = 0
    /\ ap_policy = [default_tier |-> "archive", rules |-> <<>>]
    /\ dry_run = FALSE
    /\ index_json = StoredIndex
    /\ excluded_index_json = <<>>
    /\ wechat_dir = { StoredIndex[i].id : i \in DOMAIN StoredIndex }
    /\ excluded_dir = {}
    /\ results = <<>>
    /\ ap_i = 1
    /\ kept_index = <<>>
    /\ excluded_index = <<>>

\* cmd_apply_policy up to the summary: load policy and index, evaluate
\* every conversation of the index
ApplyEvaluate(pol, dry) ==
    /\ ap_pc = "idle"
    /\ ap_runs < MaxApplyRuns
    /\ ap_runs' = ap_runs + 1
    /\ ap_policy' = pol
    /\ dry_run' = dry
    /\ results' = [i \in DOMAIN index_json |->
                     LET ev == Evaluate(pol, BuildConversationMeta(index_json[i]))
                     IN [conv |-> index_json[i], tier |-> ev[1], rule |-> ev[2]]]
    /\ ap_i' = 1
    /\ kept_index' = <<>>
    /\ excluded_index' = <<>>
    /\ ap_pc' = "evaluated"
    /\ UNCHANGED <<index_json, excluded_index_json, wechat_dir, excluded_dir>>
    /\ UNCHANGED notApplyVars

\* if dry_run: return
DryRunReturns ==
    /\ ap_pc = "evaluated"
    /\ dry_run
    /\ results' = <<>>
    /\ ap_pc' = "idle"
    /\ UNCHANGED <<ap_runs, ap_policy, dry_run, index_json, excluded_index_json,
                   wechat_dir, excluded_dir, ap_i, kept_index, excluded_index>>
    /\ UNCHANGED notApplyVars

\* one pass of the loop "for conv, tier, rule in results": tag the entry,
\* move the file of an excluded conversation
TagConversation ==
    /\ ap_pc = "evaluated"
    /\ ~dry_run
    /\ ap_i <= Len(results)
    /\ LET r == results[ap_i]
           conv == [r.conv EXCEPT !.metadata =
                       [tier |-> r.tier, filter_rule |-> r.rule] @@ r.conv.metadata]
       IN /\ results' = [results EXCEPT ![ap_i].conv = conv]
          /\ IF r.tier = "exclude"
             THEN /\ IF conv.id \in wechat_dir
                     THEN /\ wechat_dir' = wechat_dir \ {conv.id}
                          /\ excluded_dir' = excluded_dir \cup {conv.id}
                     ELSE UNCHANGED <<wechat_dir, excluded_dir>>
                  /\ excluded_index' = Append(excluded_index, conv)
                  /\ UNCHANGED kept_index
             ELSE /\ kept_index' = Append(kept_index, conv)
                  /\ UNCHANGED <<wechat_dir, excluded_dir, excluded_index>>
    /\ ap_i' = ap_i + 1
    /\ UNCHANGED <<ap_pc, ap_runs, ap_policy, dry_run, index_json, excluded_index_json>>
    /\ UNCHANGED notApplyVars

\* index_path.write_text(kept_index)
WriteKeptIndex ==
    /\ ap_pc = "evaluated"
    /\ ~dry_run
    /\ ap_i > Len(results)
    /\ index_json' = kept_index
    /\ ap_pc' = "index_written"
    /\ UNCHANGED <<ap_runs, ap_policy, dry_run, excluded_index_json, wechat_dir,
                   excluded_dir, results, ap_i, kept_index, excluded_index>>
    /\ UNCHANGED notApplyVars

\* excluded_index_path.write_text(excluded_index), and the return
WriteExcludedIndex ==
    /\ ap_pc = "index_written"
    /\ excluded_index_json' = excluded_index
    /\ results' = <<>>
    /\ ap_pc' = "idle"
    /\ UNCHANGED <<ap_runs, ap_policy, dry_run, index_json, wechat_dir, excluded_dir,
                   ap_i, kept_index, excluded_index>>
    /\ UNCHANGED notApplyVars

ApplyNext ==
    \/ \E pol \in ApplyPolicies, dry \in BOOLEAN : ApplyEvaluate(pol, dry)
    \/ DryRunReturns
    \/ TagConversation
    \/ WriteKeptIndex
    \/ WriteExcludedIndex

\* the ids of the entries of an index
C28_Ids(index) == { index[i].id : i \in DOMAIN index }

\* C28: between runs of cmd_apply_policy every conversation file in
\* _excluded/ has an entry in _excluded/index.json, every conversation file
\* in the platform directory has an entry in index.json, and no id is in
\* both indexes.
C28_EveryFileInOneIndex ==
    ap_pc = "idle" =>
        /\ excluded_dir \subseteq C28_Ids(excluded_index_json)
        /\ wechat_dir \subseteq C28_Ids(index_json)
        /\ C28_Ids(index_json) \cap C28_Ids(excluded_index_json) = {}

\* the last message of a stored conversation is within n days
C29_WithinDays(conv, n) ==
    /\ conv.last_message_time.kind = "iso"
    /\ conv.last_message_time.day >= Now - n

\* C29: for every index entry written by save_conversation that
\* cmd_apply_policy evaluates, build_conversation_meta yields the entry's
\* last_message_time, so a rule with active_within_days = N matches and a
\* rule with dormant_days = N does not match a conversation whose last
\* message is within N days.
C29_MetaHoldsLastMessageTime ==
    \A i \in DOMAIN results :
        LET conv == results[i].conv
            meta == BuildConversationMeta(conv)
        IN /\ meta.last_message_time = conv.last_message_time
           /\ \A k \in DOMAIN ap_policy.rules :
                LET rule == ap_policy.rules[k]
                IN /\ (DOMAIN rule.match = {"active_within_days"}
                       /\ C29_WithinDays(conv, rule.match.active_within_days))
                          => Matches(rule, meta)
                   /\ (DOMAIN rule.match = {"dormant_days"}
                       /\ C29_WithinDays(conv, rule.match.dormant_days))
                          => ~Matches(rule, meta)

----------------------------------------------------------------------------
(* session_history: FilePathSignal.score                                   *)

\* path_patterns of the entities the signal is scored for; the last entity
\* has none
FpEntities ==
    { Entity("spec:01_foo", "spec", {"specs/01_foo/"}, {}),
      Entity("spec:02_bar", "spec", {"specs/02_bar/", "docs/bar/"}, {}),
      Entity("source:none", "source", {}, {}) }

\* path.startswith(pattern) or pattern.rstrip("/") in path, for the paths
\* and patterns of the model
PathMatchesPattern(path, pattern) ==
    <<path, pattern>> \in
        { <<"specs/01_foo/a.md", "specs/01_foo/">>,
          <<"specs/01_foo/b.md", "specs/01_foo/">>,
          <<"notes/specs/02_bar.md", "specs/02_bar/">>,
          <<"docs/bar/c.md", "docs/bar/">> }

\* FilePathSignal._matches_entity
MatchesEntity(path, entity) ==
    \E pattern \in entity.path_patterns : PathMatchesPattern(path, pattern)

\* what extract_file_paths returns for the messages of the model: a message
\* of the first entity alone, one of both entities, one of the second
\* entity, one with a path of no entity, one without paths
FpMessageKinds ==
    [foo |-> {"specs/01_foo/a.md"},
     both |-> {"src/x.py", "specs/01_foo/b.md", "notes/specs/02_bar.md"},
     bar |-> {"docs/bar/c.md"},
     other |-> {"src/x.py"},
     nopath |-> {}]

\* Most messages of one kind in a session
MaxFoo == 21
MaxOther == 15
MaxBoth == 1
MaxNoPath == 1

\* n messages with the same extracted paths
Repeat(paths, n) == [i \in 1..n |-> paths]

Reverse(s) == [i \in 1..Len(s) |-> s[Len(s) + 1 - i]]

\* the sessions of the model, as lists of the messages' extracted paths
FpSessions ==
    UNION { { Repeat(FpMessageKinds.nopath, n) \o Repeat(FpMessageKinds.foo, f)
                \o Repeat(FpMessageKinds.both, b) \o Repeat(FpMessageKinds.other, o)
                \o Repeat(FpMessageKinds.bar, b),
              Reverse(Repeat(FpMessageKinds.nopath, n) \o Repeat(FpMessageKinds.foo, f)
                \o Repeat(FpMessageKinds.both, b) \o Repeat(FpMessageKinds.other, o)
                \o Repeat(FpMessageKinds.bar, b)) } :
            f \in 0..MaxFoo, o \in 0..MaxOther, b \in 0..MaxBoth, n \in 0..MaxNoPath }

\* a score as the fraction num / den
Fraction(num, den) == [num |-> num, den |-> den]

\* max(a, b) of two fractions
MaxFraction(a, b) == IF a.num * b.den >= b.num * a.den THEN a ELSE b

\* the loop of score: the counters after the messages
RECURSIVE CountPaths(_, _, _, _)
CountPaths(messages, entity, matched, total_with_paths) ==
    IF messages = <<>> THEN [matched |-> matched, total_with_paths |-> total_with_paths]
    ELSE LET paths == Head(messages)
         IN IF paths = {}
            THEN CountPaths(Tail(messages), entity, matched, total_with_paths)
            ELSE CountPaths(Tail(messages), entity,
                            IF \E path \in paths : MatchesEntity(path, entity)
                            THEN matched + 1 ELSE matched,
                            total_with_paths + 1)

\* mutant: the bonus of ten matches is given from five matches on
CountBonus_Mut(matched) ==
    IF matched >= 20 THEN Fraction(6, 10)
    ELSE IF matched >= 5 THEN Fraction(5, 10)
    ELSE IF matched >= 3 THEN Fraction(3, 10)
    ELSE Fraction(2, 10)

\* count_bonus of score, for matched >= 1
CountBonus(matched) ==
    IF matched >= 20 THEN Fraction(6, 10)
    ELSE IF matched >= 10 THEN Fraction(5, 10)
    ELSE IF matched >= 5 THEN Fraction(4, 10)
    ELSE IF matched >= 3 THEN Fraction(3, 10)
    ELSE Fraction(2, 10)

\* FilePathSignal.score
FilePathScore(messages, entity) ==
    IF messages = <<>> \/ entity.path_patterns = {} THEN Fraction(0, 1)
    ELSE LET c == CountPaths(messages, entity, 0, 0)
         IN IF c.total_with_paths = 0 THEN Fraction(0, 1)
            ELSE IF c.matched >= 1
                 THEN MaxFraction(Fraction(c.matched, c.total_with_paths),
                                  CountBonus(c.matched))
                 ELSE Fraction(0, 1)

FpInit ==
    /\ fp_pc = "start"
    /\ fp_messages = <<>>
    /\ fp_entity = Entity("source:none", "source", {}, {})
    /\ fp_score = Fraction(0, 1)

\* a call score(messages, entity)
Score(messages, entity) ==
    /\ fp_pc = "start"
    /\ fp_messages' = messages
    /\ fp_entity' = entity
    /\ fp_score' = FilePathScore(messages, entity)
    /\ fp_pc' = "done"
    /\ UNCHANGED notFpVars

FpNext == \E messages \in FpSessions, entity \in FpEntities : Score(messages, entity)

\* the messages that carry at least one extracted path
C25_WithPaths == { i \in DOMAIN fp_messages : fp_messages[i] # {} }

\* the messages with a path that matches a path pattern of the entity
C25_Matched ==
    { i \in DOMAIN fp_messages :
        \E path \in fp_messages[i], pattern \in fp_entity.path_patterns :
            PathMatchesPattern(path, pattern) }

\* count_bonus as the claim states it, in tenths
C25_CountBonus(matched) ==
    IF matched >= 20 THEN 6 ELSE IF matched >= 10 THEN 5 ELSE IF matched >= 5 THEN 4
    ELSE IF matched >= 3 THEN 3 ELSE IF matched >= 1 THEN 2 ELSE 0

\* C25: score is max(matched / total_with_paths, count_bonus(matched)); it
\* is 0 when matched = 0 or no message carries a path, and lies in [0, 1].
C25_ScoreIsMaxOfRatioAndBonus ==
    fp_pc = "done" =>
        LET matched == Cardinality(C25_Matched)
            total == Cardinality(C25_WithPaths)
            bonus == C25_CountBonus(matched)
        IN /\ fp_score.den > 0
           /\ 0 <= fp_score.num /\ fp_score.num <= fp_score.den
           /\ IF matched = 0 \/ total = 0
              THEN fp_score.num = 0
              ELSE IF matched * 10 >= bonus * total
                   THEN fp_score.num * total = matched * fp_score.den
                   ELSE fp_score.num * 10 = bonus * fp_score.den

\* 3 of 5 messages with paths matched: the score is 0.6, above the bonus 0.3
C25_Witness ==
    /\ fp_pc = "done"
    /\ Cardinality(C25_Matched) = 3
    /\ Cardinality(C25_WithPaths) = 5
    /\ Len(fp_messages) = 6
    /\ fp_score.num * 10 = 6 * fp_score.den

----------------------------------------------------------------------------

Init == TurnInit /\ SegInit /\ FltInit /\ RunInit /\ WxInit /\ RowInit /\ ReplayInit /\ IndexInit
        /\ ClassifyInit /\ ToDictInit /\ ApplyInit /\ FpInit

\* TurnExtractor.extract_turns over a session
Next == TurnNext

Spec == Init /\ [][Next]_vars

\* TurnEntityClassifier.classify_turns over a turn list
NextSeg == SegNext

SpecSeg == Init /\ [][NextSeg]_vars

\* FilterPolicy.evaluate over a policy and a conversation
NextFilter == FltNext

SpecFilter == Init /\ [][NextFilter]_vars

\* runs of _run_extraction against the conversation store
NextRun == RunNext

SpecRun == Init /\ [][NextRun]_vars

\* consecutive runs of _run_extraction that run to their end
NextRerun == RerunNext

SpecRerun == Init /\ [][NextRerun]_vars

\* WeChatAdapter.extract over the database files of an account
NextWx == WxNext

SpecWx == Init /\ [][NextWx]_vars

\* WeChatAdapter._parse_v4_msg_row over the rows of a Msg_ table
NextRow == RowNext

SpecRow == Init /\ [][NextRow]_vars

\* ReadableReplayGenerator.generate over an entity index
NextReplay == ReplayNext

SpecReplay == Init /\ [][NextReplay]_vars

\* IndexGenerator.build_entity_index over reference lists
NextIndex == IndexNext

SpecIndex == Init /\ [][NextIndex]_vars

\* Settings() followed by CompositeClassifier.classify
NextClassify == ClassifyNext

SpecClassify == Init /\ [][NextClassify]_vars

\* Message.to_dict over messages
NextToDict == ToDictNext

SpecToDict == Init /\ [][NextToDict]_vars

\* cmd_apply_policy over a stored index
NextApply == ApplyNext

SpecApply == Init /\ [][NextApply]_vars

\* FilePathSignal.score over sessions
NextFp == FpNext

SpecFp == Init /\ [][NextFp]_vars

====
